---- MODULE Spec2Model ----
(***************************************************************************)
(* A model of the hash table of src/src/dict.c: two bucket tables with     *)
(* chained entries, incremental rehashing, the operation layer and the     *)
(* cursor scanner.  Every operation of dict.c is an operator from a dict   *)
(* value to a record [d |-> the dict after the call, ret |-> what the call *)
(* returns]; the actions apply these operators to the variable d.          *)
(***************************************************************************)
EXTENDS Integers, Sequences, FiniteSets, TLC

\* ------------------------------------------------------------- bounds ----
NumKeys == 4        \* keys are 1..NumKeys
MaxSize == 8        \* largest table a dictExpand call of the model asks for
MaxIters == 1       \* safe iterators open at the same time
NumScanKeys == 2    \* keys of the scan sessions are 1..NumScanKeys
NumObjKeys == 2     \* keys that come as two distinct key objects
MaxScanSize == 16   \* largest table asked for during a scan session
NumIterKeys == 3    \* keys of the safe iterator sessions are 1..NumIterKeys
NumFingerKeys == 1  \* keys of the unsafe iterator sessions
NumLoadKeys == 25   \* keys of the load sessions
NumSampleKeys == 3  \* keys of the sampling sessions

\* ---------------------------------------------------- program constants --
DICT_OK == "DICT_OK"
DICT_ERR == "DICT_ERR"
NULL == [t |-> -1, i |-> 0, p |-> 0]     \* the null entry pointer
DICT_HT_INITIAL_SIZE == 4
dict_force_resize_ratio == 5

Keys == 1..NumKeys
Vals == {"u", "w"}
UNSET == "unset"                 \* the val of an entry dictAddRaw has just made
RehashN == {0, 1, 2, 100}        \* the n given to dictRehash

\* A key pointer is a number: the key objects k and k + NumKeys are two
\* objects holding the same key k, equal for the keyCompare callback of the
\* dictType (dictCompareKeys) and hashed alike.  The key objects above
\* 2 * NumKeys are the keys of the load sessions, one object each.
KeyOf(key) == IF key > 2 * NumKeys THEN key ELSE ((key - 1) % NumKeys) + 1

dictCompareKeys(key1, key2) == KeyOf(key1) = KeyOf(key2)

\* The hash callback of the dictType (dictHashKey): a fixed function of the
\* key.  Keys 1 and 2 share a bucket up to size 8, keys 3 and 4 up to size 4.
HashTable == <<4, 12, 5, 1, 10, 7, 14, 3>>

\* The hash of the j-th key of the load sessions: the first four fill the
\* four buckets of the initial table.
LoadHash(j) == (j * 37) % 256

hashFunction(key) ==
    IF key > 2 * NumKeys THEN LoadHash(key - 2 * NumKeys)
    ELSE HashTable[KeyOf(key)]

VARIABLES d,                \* the dict: [ht, rehashidx, iterators]
          dict_can_resize,  \* the global resize switch
          amap,             \* ghost: the abstract key -> value map
          fatal,            \* an assert() has failed
          scan,             \* ghost: the scan session in progress
          iter,             \* the iterator of the iterator sessions
          addr              \* the addresses of ht[0].table and ht[1].table

vars == <<d, dict_can_resize, amap, fatal, scan, iter, addr>>

\* What a call gives back: the dict as the call left it, the value returned,
\* and abort = TRUE when an assert() failed inside the call (ret is then only
\* a placeholder of the function's return type).
Ret(dd, r) == [d |-> dd, ret |-> r, abort |-> FALSE]
Abort(dd, r) == [d |-> dd, ret |-> r, abort |-> TRUE]

\* ------------------------------------------------------------- tables ----
\* A dictht.  table is <<>> for NULL, else a sequence of size buckets; bucket
\* i of the code is table[i+1].  A bucket is its chain, head first; an entry
\* is [key, val].
EmptyHt == [table |-> <<>>, size |-> 0, sizemask |-> 0, used |-> 0]

_dictReset(ht) == EmptyHt

Bucket(ht, i) == ht.table[i + 1]

SetBucket(ht, i, chain) == [ht EXCEPT !.table[i + 1] = chain]

dictCreate == [ht |-> [t \in 0..1 |-> EmptyHt], rehashidx |-> -1, iterators |-> 0]

dictIsRehashing(dd) == dd.rehashidx # -1

dictSize(dd) == dd.ht[0].used + dd.ht[1].used

\* x & mask for a mask of the form 2^n - 1
AndMask(x, mask) == x % (mask + 1)

RECURSIVE _dictNextPowerFrom(_, _)
_dictNextPowerFrom(i, size) ==
    IF i >= size THEN i ELSE _dictNextPowerFrom(i * 2, size)

\* Faulty _dictNextPower: the size asked for is not rounded up to a power of
\* two.
_dictNextPowerNoRounding(size) ==
    IF size < DICT_HT_INITIAL_SIZE THEN DICT_HT_INITIAL_SIZE ELSE size

_dictNextPower(size) == _dictNextPowerFrom(DICT_HT_INITIAL_SIZE, size)

\* ---------------------------------------------------------- dictExpand ---
\* Faulty dictExpand: the test ht[0].used > size is missing.
dictExpandAnySize(dd, size) ==
    LET realsize == _dictNextPower(size)
        n == [table |-> [i \in 1..realsize |-> <<>>], size |-> realsize,
              sizemask |-> realsize - 1, used |-> 0]
    IN  IF dictIsRehashing(dd)
          THEN Ret(dd, DICT_ERR)
        ELSE IF realsize = dd.ht[0].size
          THEN Ret(dd, DICT_ERR)
        ELSE IF dd.ht[0].table = <<>>
          THEN Ret([dd EXCEPT !.ht[0] = n], DICT_OK)
        ELSE Ret([dd EXCEPT !.ht[1] = n, !.rehashidx = 0], DICT_OK)

\* Faulty dictExpand: the second table is installed but rehashidx is left
\* as it was.
dictExpandKeepsIdle(dd, size) ==
    LET realsize == _dictNextPower(size)
        n == [table |-> [i \in 1..realsize |-> <<>>], size |-> realsize,
              sizemask |-> realsize - 1, used |-> 0]
    IN  IF dictIsRehashing(dd) \/ dd.ht[0].used > size
          THEN Ret(dd, DICT_ERR)
        ELSE IF realsize = dd.ht[0].size
          THEN Ret(dd, DICT_ERR)
        ELSE IF dd.ht[0].table = <<>>
          THEN Ret([dd EXCEPT !.ht[0] = n], DICT_OK)
        ELSE Ret([dd EXCEPT !.ht[1] = n], DICT_OK)

\* Faulty dictExpand: the test realsize == d->ht[0].size is missing.
dictExpandSameSize(dd, size) ==
    LET realsize == _dictNextPower(size)
        n == [table |-> [i \in 1..realsize |-> <<>>], size |-> realsize,
              sizemask |-> realsize - 1, used |-> 0]
    IN  IF dictIsRehashing(dd) \/ dd.ht[0].used > size
          THEN Ret(dd, DICT_ERR)
        ELSE IF dd.ht[0].table = <<>>
          THEN Ret([dd EXCEPT !.ht[0] = n], DICT_OK)
        ELSE Ret([dd EXCEPT !.ht[1] = n, !.rehashidx = 0], DICT_OK)

dictExpand(dd, size) ==
    LET realsize == _dictNextPower(size)
        n == [table |-> [i \in 1..realsize |-> <<>>], size |-> realsize,
              sizemask |-> realsize - 1, used |-> 0]
    IN  IF dictIsRehashing(dd) \/ dd.ht[0].used > size
          THEN Ret(dd, DICT_ERR)
        ELSE IF realsize = dd.ht[0].size
          THEN Ret(dd, DICT_ERR)
        ELSE IF dd.ht[0].table = <<>>
          THEN Ret([dd EXCEPT !.ht[0] = n], DICT_OK)
        ELSE Ret([dd EXCEPT !.ht[1] = n, !.rehashidx = 0], DICT_OK)

dictResize(dd, can_resize) ==
    IF ~can_resize \/ dictIsRehashing(dd)
      THEN Ret(dd, DICT_ERR)
    ELSE LET minimal == IF dd.ht[0].used < DICT_HT_INITIAL_SIZE
                          THEN DICT_HT_INITIAL_SIZE ELSE dd.ht[0].used
         IN  dictExpand(dd, minimal)

\* Faulty _dictExpandIfNeeded: the test used >= size is missing, so with
\* resizing allowed every insertion fits the table to twice its entries.
_dictExpandIfNeededAnyLoad(dd, can_resize) ==
    IF dictIsRehashing(dd) THEN Ret(dd, DICT_OK)
    ELSE IF dd.ht[0].size = 0 THEN dictExpand(dd, DICT_HT_INITIAL_SIZE)
    ELSE IF can_resize
            \/ dd.ht[0].used \div dd.ht[0].size > dict_force_resize_ratio
      THEN dictExpand(dd, dd.ht[0].used * 2)
    ELSE Ret(dd, DICT_OK)

\* Faulty _dictExpandIfNeeded: growth waits until used is above size.
_dictExpandIfNeededAboveSize(dd, can_resize) ==
    IF dictIsRehashing(dd) THEN Ret(dd, DICT_OK)
    ELSE IF dd.ht[0].size = 0 THEN dictExpand(dd, DICT_HT_INITIAL_SIZE)
    ELSE IF dd.ht[0].used > dd.ht[0].size
            /\ (can_resize
                \/ dd.ht[0].used \div dd.ht[0].size > dict_force_resize_ratio)
      THEN dictExpand(dd, dd.ht[0].used * 2)
    ELSE Ret(dd, DICT_OK)

\* Faulty _dictExpandIfNeeded: the entry about to be added is counted, so the
\* table grows when used + 1 reaches size.
_dictExpandIfNeededCountsNew(dd, can_resize) ==
    IF dictIsRehashing(dd) THEN Ret(dd, DICT_OK)
    ELSE IF dd.ht[0].size = 0 THEN dictExpand(dd, DICT_HT_INITIAL_SIZE)
    ELSE IF dd.ht[0].used + 1 >= dd.ht[0].size
            /\ (can_resize
                \/ dd.ht[0].used \div dd.ht[0].size > dict_force_resize_ratio)
      THEN dictExpand(dd, dd.ht[0].used * 2)
    ELSE Ret(dd, DICT_OK)

_dictExpandIfNeeded(dd, can_resize) ==
    IF dictIsRehashing(dd) THEN Ret(dd, DICT_OK)
    ELSE IF dd.ht[0].size = 0 THEN dictExpand(dd, DICT_HT_INITIAL_SIZE)
    ELSE IF dd.ht[0].used >= dd.ht[0].size
            /\ (can_resize
                \/ dd.ht[0].used \div dd.ht[0].size > dict_force_resize_ratio)
      THEN dictExpand(dd, dd.ht[0].used * 2)
    ELSE Ret(dd, DICT_OK)

\* The operators said to be faulty are operators of the model with one fault
\* put in: a property of the code is expected to fail of them.

\* ---------------------------------------------------------- dictRehash ---
\* The inner loop of dictRehash that moves the chain of ht[0].table[rehashidx]
\* to ht[1], entry by entry from the head, each to the head of its new bucket.
\* Faulty MoveChain: only the head of the chain is linked into ht[1], the
\* rest of the chain is lost when the bucket is cleared.
MoveChainHeadOnly(dd, chain) ==
    IF chain = <<>> THEN dd
    ELSE LET de == Head(chain)
             h == AndMask(hashFunction(de.key), dd.ht[1].sizemask)
         IN  [dd EXCEPT
                !.ht[1] = [SetBucket(@, h, <<de>> \o Bucket(@, h))
                             EXCEPT !.used = @ + 1],
                !.ht[0].used = @ - Len(chain)]

\* Faulty MoveChain: ht[0].used is not decremented for the entries moved.
RECURSIVE MoveChainKeepsUsed(_, _)
MoveChainKeepsUsed(dd, chain) ==
    IF chain = <<>> THEN dd
    ELSE LET de == Head(chain)
             h == AndMask(hashFunction(de.key), dd.ht[1].sizemask)
             moved == [dd EXCEPT
                         !.ht[1] = [SetBucket(@, h, <<de>> \o Bucket(@, h))
                                      EXCEPT !.used = @ + 1]]
         IN  MoveChainKeepsUsed(moved, Tail(chain))

RECURSIVE MoveChain(_, _)
MoveChain(dd, chain) ==
    IF chain = <<>> THEN dd
    ELSE LET de == Head(chain)
             h == AndMask(hashFunction(de.key), dd.ht[1].sizemask)
             moved == [dd EXCEPT
                         !.ht[1] = [SetBucket(@, h, <<de>> \o Bucket(@, h))
                                      EXCEPT !.used = @ + 1],
                         !.ht[0].used = @ - 1]
         IN  MoveChain(moved, Tail(chain))

\* Faulty MoveBucket: the bucket is cleared and counted out of ht[0] without
\* its chain being linked into ht[1].
MoveBucketLosesChain(dd) ==
    [dd EXCEPT !.ht[0] = [SetBucket(@, dd.rehashidx, <<>>)
                            EXCEPT !.used = @ - Len(Bucket(dd.ht[0], dd.rehashidx))],
               !.rehashidx = @ + 1]

MoveBucket(dd) ==
    [MoveChain(dd, Bucket(dd.ht[0], dd.rehashidx))
       EXCEPT !.ht[0] = SetBucket(@, dd.rehashidx, <<>>),
              !.rehashidx = @ + 1]

\* Faulty SkipEmpty: the visits of empty buckets are not counted, so the
\* skip goes on to the next non-empty bucket however far it is.
RECURSIVE SkipEmptyUncounted(_, _)
SkipEmptyUncounted(dd, empty_visits) ==
    IF dd.rehashidx >= dd.ht[0].size
      THEN [d |-> dd, ev |-> empty_visits, out |-> "oob"]
    ELSE IF Bucket(dd.ht[0], dd.rehashidx) = <<>>
      THEN SkipEmptyUncounted([dd EXCEPT !.rehashidx = @ + 1], empty_visits)
    ELSE [d |-> dd, ev |-> empty_visits, out |-> "found"]

\* while(d->ht[0].table[d->rehashidx] == NULL): out is "found" at a non-empty
\* bucket, "ret1" when the empty_visits budget ends, "oob" when the read is
\* past the end of the table.
RECURSIVE SkipEmpty(_, _)
SkipEmpty(dd, empty_visits) ==
    IF dd.rehashidx >= dd.ht[0].size
      THEN [d |-> dd, ev |-> empty_visits, out |-> "oob"]
    ELSE IF Bucket(dd.ht[0], dd.rehashidx) = <<>>
      THEN LET next == [dd EXCEPT !.rehashidx = @ + 1]
           IN  IF empty_visits - 1 = 0
                 THEN [d |-> next, ev |-> 0, out |-> "ret1"]
                 ELSE SkipEmpty(next, empty_visits - 1)
    ELSE [d |-> dd, ev |-> empty_visits, out |-> "found"]

\* while(n-- && d->ht[0].used != 0): out is "end" when the loop ends, "assert"
\* when the assert on rehashidx fails, else the out of SkipEmpty that left
\* the function.  RehashLoopBody is the body from the bucket move on, sk
\* being what the skip of the empty buckets gave.
RECURSIVE RehashLoop(_, _, _)
RECURSIVE RehashLoopBody(_, _)
RehashLoop(dd, n, empty_visits) ==
    IF n = 0 \/ dd.ht[0].used = 0
      THEN [d |-> dd, out |-> "end"]
    ELSE IF ~(dd.ht[0].size > dd.rehashidx)
      THEN [d |-> dd, out |-> "assert"]
    ELSE RehashLoopBody(SkipEmpty(dd, empty_visits), n)

RehashLoopBody(sk, n) ==
    IF sk.out = "found"
      THEN RehashLoop(MoveBucket(sk.d), n - 1, sk.ev)
      ELSE [d |-> sk.d, out |-> sk.out]

\* Faulty dictRehash: the test "ht[0].used == 0" after the loop is missing,
\* so the tables are never swapped and rehashidx never goes back to -1.
dictRehashNeverDone(dd, n) ==
    IF ~dictIsRehashing(dd) THEN Ret(dd, 0)
    ELSE LET lp == RehashLoop(dd, n, n * 10)
         IN  IF lp.out \in {"assert", "oob"} THEN Abort(lp.d, 1) ELSE Ret(lp.d, 1)

\* Faulty RehashEnd: ht[1] is not reset when the tables are swapped.
RehashEndKeepsSecond(lp) ==
    IF lp.out \in {"assert", "oob"} THEN Abort(lp.d, 1)
    ELSE IF lp.out = "ret1" THEN Ret(lp.d, 1)
    ELSE IF lp.d.ht[0].used = 0
      THEN Ret([lp.d EXCEPT !.ht[0] = lp.d.ht[1], !.rehashidx = -1], 0)
    ELSE Ret(lp.d, 1)

\* Faulty RehashEnd: the tables are swapped but the call still returns 1.
RehashEndReturnsMore(lp) ==
    IF lp.out \in {"assert", "oob"} THEN Abort(lp.d, 1)
    ELSE IF lp.d.ht[0].used = 0 /\ lp.out # "ret1"
      THEN Ret([lp.d EXCEPT !.ht[0] = lp.d.ht[1],
                            !.ht[1] = _dictReset(@),
                            !.rehashidx = -1], 1)
    ELSE Ret(lp.d, 1)

\* The end of dictRehash, lp being what the loop gave: the check whether the
\* whole table was rehashed.
RehashEnd(lp) ==
    IF lp.out \in {"assert", "oob"} THEN Abort(lp.d, 1)
    ELSE IF lp.out = "ret1" THEN Ret(lp.d, 1)
    ELSE IF lp.d.ht[0].used = 0
      THEN Ret([lp.d EXCEPT !.ht[0] = lp.d.ht[1],
                            !.ht[1] = _dictReset(@),
                            !.rehashidx = -1], 0)
    ELSE Ret(lp.d, 1)

dictRehash(dd, n) ==
    IF ~dictIsRehashing(dd) THEN Ret(dd, 0)
    ELSE RehashEnd(RehashLoop(dd, n, n * 10))

\* Faulty _dictRehashStep: the test of d->iterators is missing.
_dictRehashStepAlways(dd) == dictRehash(dd, 1)

_dictRehashStep(dd) ==
    IF dd.iterators = 0 THEN dictRehash(dd, 1) ELSE Ret(dd, 1)

\* Faulty step: dictRehash is called where _dictRehashStep should be.
StepIgnoringIterators(dd) ==
    IF dictIsRehashing(dd) THEN dictRehash(dd, 1) ELSE Ret(dd, 0)

\* if (dictIsRehashing(d)) _dictRehashStep(d);
StepIfRehashing(dd) ==
    IF dictIsRehashing(dd) THEN _dictRehashStep(dd) ELSE Ret(dd, 0)

\* ------------------------------------------------------ operation layer --
\* An entry pointer is the place of the entry: [t |-> table, i |-> bucket,
\* p |-> position in the chain, 1 for the head].
EntryAt(dd, he) == Bucket(dd.ht[he.t], he.i)[he.p]

\* The walk "while(he) { if (key==he->key || dictCompareKeys(...)) ...;
\* he = he->next; }": the position of the first entry of the chain with the
\* key, 0 when the walk reaches the end.
RECURSIVE ChainWalk(_, _, _)
ChainWalk(chain, key, p) ==
    IF p > Len(chain) THEN 0
    ELSE IF key = chain[p].key \/ dictCompareKeys(key, chain[p].key) THEN p
    ELSE ChainWalk(chain, key, p + 1)

ChainPos(chain, key) == ChainWalk(chain, key, 1)

\* The loop over table 0 and, while rehashing, table 1 that dictFind,
\* _dictKeyIndex and dictGenericDelete share: the entry with the key, or
\* [t |-> -1] with i the index computed in the last table looked at.
LookupAt(table, idx, p) == [t |-> IF p = 0 THEN -1 ELSE table, i |-> idx, p |-> p]

LookupInBucket(dd, key, table, idx) ==
    LookupAt(table, idx, ChainPos(Bucket(dd.ht[table], idx), key))

LookupFrom(dd, key, table) ==
    LookupInBucket(dd, key, table, AndMask(hashFunction(key), dd.ht[table].sizemask))

LookupNext(dd, key, l0) ==
    IF l0.t # -1 \/ ~dictIsRehashing(dd) THEN l0 ELSE LookupFrom(dd, key, 1)

\* Faulty Lookup: the loop stops after table 0 even while rehashing.
LookupFirstTableOnly(dd, key) == LookupFrom(dd, key, 0)

Lookup(dd, key) == LookupNext(dd, key, LookupFrom(dd, key, 0))

\* Faulty _dictKeyIndex: the key is searched in table 0 only, the index is
\* that of the table the entry will go to.
_dictKeyIndexFirstTableOnly(dd, key, can_resize) ==
    LET ex == _dictExpandIfNeeded(dd, can_resize)
        t == IF dictIsRehashing(ex.d) THEN 1 ELSE 0
    IN  IF ex.ret = DICT_ERR THEN Ret(ex.d, -1)
        ELSE IF LookupFrom(ex.d, key, 0).t # -1 THEN Ret(ex.d, -1)
        ELSE Ret(ex.d, AndMask(hashFunction(key), ex.d.ht[t].sizemask))

\* _dictKeyIndex after the call of _dictExpandIfNeeded that gave ex, and its
\* return value, l being what the search gave.
KeyIndexOf(l) == IF l.t # -1 THEN -1 ELSE l.i

KeyIndexSearch(ex, key) ==
    IF ex.ret = DICT_ERR THEN Ret(ex.d, -1)
    ELSE Ret(ex.d, KeyIndexOf(Lookup(ex.d, key)))

_dictKeyIndex(dd, key, can_resize) ==
    KeyIndexSearch(_dictExpandIfNeeded(dd, can_resize), key)

\* dictAddRaw from the allocation of the entry on: ki is what _dictKeyIndex
\* gave, t the table the entry goes to.
AddRawLink(ki, key, t) ==
    Ret([ki.d EXCEPT
           !.ht[t] = [SetBucket(@, ki.ret, <<[key |-> key, val |-> UNSET]>>
                                             \o Bucket(@, ki.ret))
                        EXCEPT !.used = @ + 1]],
        [t |-> t, i |-> ki.ret, p |-> 1])

\* Faulty AddRawEntry: the entry is always linked into ht[0].
AddRawEntryFirstTable(ki, key) ==
    IF ki.ret = -1 THEN Ret(ki.d, NULL)
    ELSE AddRawLink(ki, key, 0)

AddRawEntry(ki, key) ==
    IF ki.ret = -1 THEN Ret(ki.d, NULL)
    ELSE AddRawLink(ki, key, IF dictIsRehashing(ki.d) THEN 1 ELSE 0)

\* dictAddRaw after the rehash step that gave st.
AddRawIndex(st, key, can_resize) ==
    IF st.abort THEN Abort(st.d, NULL)
    ELSE AddRawEntry(_dictKeyIndex(st.d, key, can_resize), key)

dictAddRaw(dd, key, can_resize) ==
    AddRawIndex(StepIfRehashing(dd), key, can_resize)

\* dictSetVal(d, entry, val)
dictSetVal(dd, he, val) ==
    [dd EXCEPT !.ht[he.t].table[he.i + 1][he.p].val = val]

\* Faulty dictAdd: when the key exists its value is overwritten before the
\* error is returned.
dictAddOverwrites(dd, key, val, can_resize) ==
    LET r == dictAddRaw(dd, key, can_resize)
        l == Lookup(r.d, key)
    IN  IF r.abort THEN Abort(r.d, DICT_ERR)
        ELSE IF r.ret = NULL
          THEN Ret(IF l.t = -1 THEN r.d ELSE dictSetVal(r.d, l, val), DICT_ERR)
        ELSE Ret(dictSetVal(r.d, r.ret, val), DICT_OK)

\* dictAdd after the call of dictAddRaw that gave r.
AddSetVal(r, val) ==
    IF r.abort THEN Abort(r.d, DICT_ERR)
    ELSE IF r.ret = NULL THEN Ret(r.d, DICT_ERR)
    ELSE Ret(dictSetVal(r.d, r.ret, val), DICT_OK)

dictAdd(dd, key, val, can_resize) ==
    AddSetVal(dictAddRaw(dd, key, can_resize), val)

\* dictFind after the rehash step that gave st: the search.
FoundOrNull(l) == IF l.t = -1 THEN NULL ELSE l

FindSearch(st, key) ==
    IF st.abort THEN Abort(st.d, NULL)
    ELSE Ret(st.d, FoundOrNull(Lookup(st.d, key)))

\* Faulty dictFind: no rehash step is made.
dictFindNoStep(dd, key) ==
    IF dictSize(dd) = 0 THEN Ret(dd, NULL)
    ELSE FindSearch(Ret(dd, 0), key)

dictFind(dd, key) ==
    IF dictSize(dd) = 0 THEN Ret(dd, NULL)
    ELSE FindSearch(StepIfRehashing(dd), key)

FetchValueOf(f) ==
    IF f.abort \/ f.ret = NULL THEN [f EXCEPT !.ret = "NULL"]
    ELSE Ret(f.d, EntryAt(f.d, f.ret).val)

dictFetchValue(dd, key) == FetchValueOf(dictFind(dd, key))

RemoveAt(chain, p) == SubSeq(chain, 1, p - 1) \o SubSeq(chain, p + 1, Len(chain))

\* Faulty dictGenericDelete: the entry is unlinked, used is not decremented.
dictGenericDeleteKeepsUsed(dd, key, nofree) ==
    IF dd.ht[0].size = 0 THEN Ret(dd, DICT_ERR)
    ELSE LET st == StepIfRehashing(dd)
             l == Lookup(st.d, key)
         IN  IF st.abort THEN Abort(st.d, DICT_ERR)
             ELSE IF l.t = -1 THEN Ret(st.d, DICT_ERR)
             ELSE Ret([st.d EXCEPT
                         !.ht[l.t] = SetBucket(@, l.i, RemoveAt(Bucket(@, l.i), l.p))],
                      DICT_OK)

\* Faulty DeleteUnlink: prevHe->next (or the bucket) is set to NULL instead
\* of he->next, so the entries after the deleted one leave the chain.
DeleteUnlinkDropsRest(st, l) ==
    IF st.abort THEN Abort(st.d, DICT_ERR)
    ELSE IF l.t = -1 THEN Ret(st.d, DICT_ERR)
    ELSE Ret([st.d EXCEPT
                !.ht[l.t] = [SetBucket(@, l.i, SubSeq(Bucket(@, l.i), 1, l.p - 1))
                               EXCEPT !.used = @ - 1]],
             DICT_OK)

\* dictGenericDelete after the rehash step that gave st: the search, and the
\* unlinking of the entry l that it found.
DeleteUnlink(st, l) ==
    IF st.abort THEN Abort(st.d, DICT_ERR)
    ELSE IF l.t = -1 THEN Ret(st.d, DICT_ERR)
    ELSE Ret([st.d EXCEPT
                !.ht[l.t] = [SetBucket(@, l.i, RemoveAt(Bucket(@, l.i), l.p))
                               EXCEPT !.used = @ - 1]],
             DICT_OK)

DeleteSearch(st, key) == DeleteUnlink(st, Lookup(st.d, key))

dictGenericDelete(dd, key, nofree) ==
    IF dd.ht[0].size = 0 THEN Ret(dd, DICT_ERR)
    ELSE DeleteSearch(StepIfRehashing(dd), key)

dictDelete(dd, key) == dictGenericDelete(dd, key, FALSE)

\* Faulty dictReplace: the old entry is deleted and a new one added, so the
\* dict ends up holding the key object of the call.
dictReplaceByDeleteAdd(dd, key, val, can_resize) ==
    LET x == dictDelete(dd, key)
        a == dictAdd(x.d, key, val, can_resize)
    IN  IF x.abort \/ a.abort THEN Abort(a.d, 0)
        ELSE Ret(a.d, IF x.ret = DICT_OK THEN 0 ELSE 1)

\* dictReplace after the call of dictAdd that gave a, and after the call of
\* dictFind that gave f.  A NULL entry from dictFind would be dereferenced:
\* the process dies.
ReplaceSetVal(f, val) ==
    IF f.abort \/ f.ret = NULL THEN Abort(f.d, 0)
    ELSE Ret(dictSetVal(f.d, f.ret, val), 0)

ReplaceFind(a, key, val) ==
    IF a.abort THEN Abort(a.d, 0)
    ELSE IF a.ret = DICT_OK THEN Ret(a.d, 1)
    ELSE ReplaceSetVal(dictFind(a.d, key), val)

dictReplace(dd, key, val, can_resize) ==
    ReplaceFind(dictAdd(dd, key, val, can_resize), key, val)

\* dictReplaceRaw after the call of dictFind that gave f:
\* return entry ? entry : dictAddRaw(d, key)
ReplaceRawAdd(f, key, can_resize) ==
    IF f.abort \/ f.ret # NULL THEN f
    ELSE dictAddRaw(f.d, key, can_resize)

dictReplaceRaw(dd, key, can_resize) ==
    ReplaceRawAdd(dictFind(dd, key), key, can_resize)

\* The part of dictGetRandomKey that writes the dict: the rehash step.
dictGetRandomKeyStep(dd) ==
    IF dictSize(dd) = 0 THEN Ret(dd, 0) ELSE StepIfRehashing(dd)

\* ------------------------------------------------------ dictGetRandomKey --
\* The values random() returns are inputs: r1 for the draw of the bucket, r2
\* for the draw in the chain.  The bucket the draw r1 reads:
\* Faulty RandomRead: while rehashing the index is always read in ht[0].
RandomReadFirstTableOnly(dd, r1) ==
    IF dictIsRehashing(dd)
      THEN [t |-> 0,
            i |-> dd.rehashidx
                    + (r1 % (dd.ht[0].size + dd.ht[1].size - dd.rehashidx))]
      ELSE [t |-> 0, i |-> AndMask(r1, dd.ht[0].sizemask)]

\* h = d->rehashidx + (random() % (size0 + size1 - d->rehashidx)), read in
\* ht[1] at h - size0 when h >= size0; or h = random() & d->ht[0].sizemask.
RandomIndex(dd, h) ==
    IF h >= dd.ht[0].size THEN [t |-> 1, i |-> h - dd.ht[0].size]
                          ELSE [t |-> 0, i |-> h]

RandomRead(dd, r1) ==
    IF dictIsRehashing(dd)
      THEN RandomIndex(dd, dd.rehashidx
                             + (r1 % (dd.ht[0].size + dd.ht[1].size - dd.rehashidx)))
      ELSE [t |-> 0, i |-> AndMask(r1, dd.ht[0].sizemask)]

\* The entry pointer that stands for "the bucket drawn is empty, the do-while
\* loop draws again".
AGAIN == [t |-> -2, i |-> 0, p |-> 0]

\* What follows the draw of the bucket rd: a read outside the table is an
\* error of the program; in a chain the entry at listele = r2 % listlen is
\* returned.  read is the bucket read.
RandomPick(dd, rd, r2) ==
    IF rd.i < 0 \/ rd.i >= dd.ht[rd.t].size
      THEN [d |-> dd, ret |-> NULL, abort |-> TRUE, read |-> rd]
    ELSE IF Bucket(dd.ht[rd.t], rd.i) = <<>>
      THEN [d |-> dd, ret |-> AGAIN, abort |-> FALSE, read |-> rd]
    ELSE [d |-> dd,
          ret |-> [t |-> rd.t, i |-> rd.i,
                   p |-> (r2 % Len(Bucket(dd.ht[rd.t], rd.i))) + 1],
          abort |-> FALSE, read |-> rd]

\* dictGetRandomKey after the rehash step that gave st.
RandomAfterStep(st, r1, r2) ==
    IF st.abort THEN [d |-> st.d, ret |-> NULL, abort |-> TRUE, read |-> NULL]
    ELSE RandomPick(st.d, RandomRead(st.d, r1), r2)

dictGetRandomKey(dd, r1, r2) ==
    IF dictSize(dd) = 0
      THEN [d |-> dd, ret |-> NULL, abort |-> FALSE, read |-> NULL]
      ELSE RandomAfterStep(StepIfRehashing(dd), r1, r2)

\* The part of dictGetSomeKeys that writes the dict: up to count rehash steps.
RECURSIVE SomeKeysSteps(_, _)
RECURSIVE SomeKeysNext(_, _)
SomeKeysSteps(dd, j) ==
    IF j = 0 \/ ~dictIsRehashing(dd) THEN Ret(dd, 0)
    ELSE SomeKeysNext(_dictRehashStep(dd), j)

SomeKeysNext(st, j) == IF st.abort THEN st ELSE SomeKeysSteps(st.d, j - 1)

dictGetSomeKeysSteps(dd, count) ==
    SomeKeysSteps(dd, IF dictSize(dd) < count THEN dictSize(dd) ELSE count)

\* --------------------------------------------------------- dictGetSomeKeys --
\* The sampling of dictGetSomeKeys.  c holds what the loops do not change:
\* the dict after the rehash steps, count, tables, maxsizemask and rs, the
\* values random() returns (the first draw is rs[1], the later ones take
\* rs[2], rs[1], ... in turn).  s holds the variables of the loops: i,
\* emptylen, stored, maxsteps, des (the entries stored, in order), and for
\* the examination of the call: draws (the random() calls made), steps (the
\* iterations of the while loop begun), reads (the buckets read), oob (a
\* bucket was read outside its table), done (the function has returned).
SomeKeysDraw(c, n) == AndMask(c.rs[(n % 2) + 1], c.mask)

\* Faulty SomeKeysInRange: the test i >= d->ht[j].size is missing.
SomeKeysAlwaysInRange(c, j, i) == TRUE

\* if (i >= d->ht[j].size) continue;
SomeKeysInRange(c, j, i) == i < c.d.ht[j].size

\* he == NULL: emptylen++, and a new random i when emptylen reaches 5 and is
\* above count.
SomeKeysEmpty(c, s) ==
    IF s.emptylen + 1 >= 5 /\ s.emptylen + 1 > c.count
      THEN [s EXCEPT !.i = SomeKeysDraw(c, s.draws), !.draws = @ + 1,
                     !.emptylen = 0]
    ELSE [s EXCEPT !.emptylen = @ + 1]

\* while (he): the entries of the chain are stored from the head on until
\* stored == count, and then the function returns.
SomeKeysCollect(c, s, j) ==
    LET chain == Bucket(c.d.ht[j], s.i)
        n == IF Len(chain) < c.count - s.stored THEN Len(chain)
             ELSE c.count - s.stored
    IN  [s EXCEPT !.emptylen = 0,
                  !.des = @ \o [p \in 1..n |-> [t |-> j, i |-> s.i, p |-> p]],
                  !.stored = @ + n,
                  !.done = (s.stored + n = c.count)]

\* dictEntry *he = d->ht[j].table[i] and what follows it.
SomeKeysRead(c, s, j) ==
    IF s.i \notin 0..(c.d.ht[j].size - 1)
      THEN [s EXCEPT !.oob = TRUE, !.done = TRUE]
    ELSE IF Bucket(c.d.ht[j], s.i) = <<>>
      THEN SomeKeysEmpty(c, [s EXCEPT !.reads = @ \cup {<<j, s.i>>}])
    ELSE SomeKeysCollect(c, [s EXCEPT !.reads = @ \cup {<<j, s.i>>}], j)

\* for (j = 0; j < tables; j++), from j on.
RECURSIVE SomeKeysTables(_, _, _)
SomeKeysTables(c, s, j) ==
    IF j >= c.tables \/ s.done THEN s
    ELSE IF c.tables = 2 /\ j = 0 /\ s.i < c.d.rehashidx
      THEN SomeKeysTables(c, [s EXCEPT !.i = IF s.i >= c.d.ht[1].size
                                               THEN c.d.rehashidx ELSE s.i],
                          j + 1)
    ELSE IF ~SomeKeysInRange(c, j, s.i) THEN SomeKeysTables(c, s, j + 1)
    ELSE SomeKeysTables(c, SomeKeysRead(c, s, j), j + 1)

\* while (stored < count && maxsteps--) { ...; i = (i+1) & maxsizemask; }
RECURSIVE SomeKeysWhile(_, _)
SomeKeysWhile(c, s) ==
    IF s.done \/ s.stored >= c.count \/ s.maxsteps = 0 THEN s
    ELSE LET s1 == SomeKeysTables(c, [s EXCEPT !.maxsteps = @ - 1,
                                              !.steps = @ + 1], 0)
         IN  IF s1.done THEN s1
             ELSE SomeKeysWhile(c, [s1 EXCEPT !.i = AndMask(@ + 1, c.mask)])

\* The sampling after the rehash steps that gave st.
SomeKeysSample(st, count, rs) ==
    LET tables == IF dictIsRehashing(st.d) THEN 2 ELSE 1
        mask == IF tables > 1 /\ st.d.ht[0].sizemask < st.d.ht[1].sizemask
                  THEN st.d.ht[1].sizemask ELSE st.d.ht[0].sizemask
        c == [d |-> st.d, count |-> count, tables |-> tables, mask |-> mask,
              rs |-> rs]
    IN  SomeKeysWhile(c, [i |-> SomeKeysDraw(c, 0), emptylen |-> 0,
                          stored |-> 0, maxsteps |-> count * 10, des |-> <<>>,
                          draws |-> 1, steps |-> 0, reads |-> {},
                          oob |-> FALSE, done |-> FALSE])

SomeKeysAfterSteps(st, count, rs) ==
    LET s == SomeKeysSample(st, count, rs)
    IN  [d |-> st.d, ret |-> s.stored, abort |-> st.abort \/ s.oob,
         des |-> s.des, steps |-> s.steps, reads |-> s.reads]

\* dictGetSomeKeys(d, des, count)
dictGetSomeKeys(dd, count, rs) ==
    LET cnt == IF dictSize(dd) < count THEN dictSize(dd) ELSE count
    IN  SomeKeysAfterSteps(SomeKeysSteps(dd, cnt), cnt, rs)

\* ------------------------------------------------- the destructor calls ---
\* dictFreeKey(d, he); dictFreeVal(d, he): the keyDestructor and valDestructor
\* callbacks of the dictType, each with the entry it is invoked for (named by
\* its key object) and the object it is given.
FreeEntry(e) ==
    <<[fn |-> "keyDestructor", he |-> e.key, arg |-> e.key],
      [fn |-> "valDestructor", he |-> e.key, arg |-> e.val]>>

\* The destructor calls of dictGenericDelete.
DeleteCallbacksOf(st, l, nofree) ==
    IF st.abort \/ l.t = -1 \/ nofree THEN <<>>
    ELSE FreeEntry(EntryAt(st.d, l))

DeleteCallbacksAfterStep(st, key, nofree) ==
    DeleteCallbacksOf(st, Lookup(st.d, key), nofree)

dictGenericDeleteCallbacks(dd, key, nofree) ==
    IF dd.ht[0].size = 0 THEN <<>>
    ELSE DeleteCallbacksAfterStep(StepIfRehashing(dd), key, nofree)

dictDeleteNoFree(dd, key) == dictGenericDelete(dd, key, TRUE)

\* ---------------------------------------------------------- _dictClear ---
\* The while loop of _dictClear on the chain of one bucket, c being
\* [used, calls]: each entry of the chain is destroyed and used decremented.
\* Faulty ClearChain: only the head of the chain is destroyed.
ClearChainHeadOnly(chain, c) ==
    IF chain = <<>> THEN c
    ELSE [used |-> c.used - 1, calls |-> c.calls \o FreeEntry(Head(chain))]

RECURSIVE ClearChain(_, _)
ClearChain(chain, c) ==
    IF chain = <<>> THEN c
    ELSE ClearChain(Tail(chain),
                    [used |-> c.used - 1,
                     calls |-> c.calls \o FreeEntry(Head(chain))])

\* The for loop of _dictClear from bucket i on: it ends at the end of the
\* table or as soon as used is 0.
RECURSIVE ClearLoop(_, _, _)
ClearLoop(ht, i, c) ==
    IF i < ht.size /\ c.used > 0
      THEN ClearLoop(ht, i + 1, ClearChain(Bucket(ht, i), c))
    ELSE c

\* _dictClear(d, ht, callback): the destructor calls it makes; the table is
\* released and the dictht reset whatever the loop did.
_dictClearCallbacks(ht) == ClearLoop(ht, 0, [used |-> ht.used, calls |-> <<>>]).calls

_dictClear(ht) == _dictReset(ht)

\* dictRelease(d): both tables are cleared, then the dict itself is freed.
dictRelease(dd) ==
    Ret([dd EXCEPT !.ht[0] = _dictClear(@), !.ht[1] = _dictClear(@)], 0)

dictReleaseCallbacks(dd) ==
    _dictClearCallbacks(dd.ht[0]) \o _dictClearCallbacks(dd.ht[1])

\* dictEmpty(d, callback)
dictEmpty(dd) ==
    Ret([dd EXCEPT !.ht[0] = _dictClear(@), !.ht[1] = _dictClear(@),
                   !.rehashidx = -1, !.iterators = 0], 0)

dictEmptyCallbacks(dd) ==
    _dictClearCallbacks(dd.ht[0]) \o _dictClearCallbacks(dd.ht[1])

\* ------------------------------------------------------------ the ghost --
ABSENT == "absent"

AbsAdd(m, key, val) == IF m[key] = ABSENT THEN [m EXCEPT ![key] = val] ELSE m
AbsReplace(m, key, val) == [m EXCEPT ![key] = val]
AbsDelete(m, key) == [m EXCEPT ![key] = ABSENT]

\* -------------------------------------------------------------- dictScan --
\* unsigned long is 64 bits wide: a cursor is computed on its bits, a function
\* from bit position 0..63 to 0..1.  The model's cursors and masks are below
\* 2^31.
WordBits == 64

Word == 0..(WordBits - 1)

BitOf(x, i) == IF i > 30 THEN 0 ELSE (x \div (2 ^ i)) % 2

ToBits(x) == [i \in Word |-> BitOf(x, i)]

RECURSIVE BitsValue(_, _)
BitsValue(b, i) ==
    IF i > 30 THEN 0 ELSE b[i] * (2 ^ i) + BitsValue(b, i + 1)

\* The value of the word, -1 when it does not fit the model's integers.
FromBits(b) ==
    IF \E i \in 31..(WordBits - 1) : b[i] = 1 THEN -1 ELSE BitsValue(b, 0)

\* rev(v) swaps halves, then quarters, ... then neighbouring bits: bit i of
\* the result is bit 63 - i of v.
rev(b) == [i \in Word |-> b[WordBits - 1 - i]]

\* v++ on the 64-bit word
RECURSIVE IncFrom(_, _)
IncFrom(b, i) ==
    IF i >= WordBits THEN b
    ELSE IF b[i] = 0 THEN [b EXCEPT ![i] = 1]
    ELSE IncFrom([b EXCEPT ![i] = 0], i + 1)

Increment(b) == IncFrom(b, 0)

\* Faulty ReverseIncrement: the masked cursor is incremented as it is, not
\* bit-reversed.
PlainIncrement(v, m0) ==
    LET vb == ToBits(v)
        mb == ToBits(m0)
        low == [i \in Word |-> IF mb[i] = 0 THEN 0 ELSE vb[i]]
        n == Increment(low)
    IN  FromBits([i \in Word |-> IF mb[i] = 0 THEN 0 ELSE n[i]])

\* v |= ~m0; v = rev(v); v++; v = rev(v);
ReverseIncrement(v, m0) ==
    LET vb == ToBits(v)
        mb == ToBits(m0)
        set == [i \in Word |-> IF mb[i] = 0 THEN 1 ELSE vb[i]]
        r == rev(set)
        n == Increment(r)
        back == rev(n)
    IN  FromBits(back)

\* ReverseIncrement over the masks and cursors the model can reach, computed
\* once.
CursorMasks == {3, 7, 15, 31}
CursorTable ==
    [m0 \in CursorMasks |-> [v \in 0..63 |-> ReverseIncrement(v, m0)]]

NextCursor(v, m0) == CursorTable[m0][v]

\* Faulty ChainKeys: the callback gets the head of the chain only.
ChainKeysHeadOnly(chain) ==
    IF chain = <<>> THEN <<>> ELSE <<chain[1].key>>

\* The keys of a chain in the order the callback gets them.
ChainKeys(chain) == [p \in 1..Len(chain) |-> chain[p].key]

\* v = (((v | m0) + 1) & ~m0) | (v & m0), m0 of the form 2^n - 1
IncHighBits(v, m0) ==
    ((v \div (m0 + 1)) + 1) * (m0 + 1) + AndMask(v, m0)

\* (v & (m0 ^ m1)) for m0 <= m1, both of the form 2^n - 1
MaskDiff(v, m0, m1) == AndMask(v, m1) - AndMask(v, m0)

\* do { emit t1->table[v & m1]; increment the bits not covered by m0 }
\* while (v & (m0 ^ m1));
RECURSIVE ScanLarger(_, _, _, _)
ScanLarger(t1, v, m0, m1) ==
    LET here == ChainKeys(Bucket(t1, AndMask(v, m1)))
        v1 == IncHighBits(v, m0)
    IN  IF MaskDiff(v1, m0, m1) # 0
          THEN LET rest == ScanLarger(t1, v1, m0, m1)
               IN  [v |-> rest.v, emitted |-> here \o rest.emitted]
          ELSE [v |-> v1, emitted |-> here]

\* dictScan(d, v, fn, privdata): ret is the cursor returned, emitted the keys
\* of the entries given to fn, in order.  The dict is not written.
dictScan(dd, v) ==
    IF dictSize(dd) = 0 THEN [ret |-> 0, emitted |-> <<>>]
    ELSE IF ~dictIsRehashing(dd)
      THEN LET m0 == dd.ht[0].sizemask
           IN  [ret |-> NextCursor(v, m0),
                emitted |-> ChainKeys(Bucket(dd.ht[0], AndMask(v, m0)))]
    ELSE LET swap == dd.ht[0].size > dd.ht[1].size
             t0 == IF swap THEN dd.ht[1] ELSE dd.ht[0]
             t1 == IF swap THEN dd.ht[0] ELSE dd.ht[1]
             m0 == t0.sizemask
             m1 == t1.sizemask
             small == ChainKeys(Bucket(t0, AndMask(v, m0)))
             large == ScanLarger(t1, v, m0, m1)
         IN  [ret |-> NextCursor(large.v, m0),
              emitted |-> small \o large.emitted]

Range(f) == {f[x] : x \in DOMAIN f}

\* ----------------------------------------------------- dictFingerprint ---
\* A long long is 64 bits wide: a word is its four 16-bit limbs, the least
\* significant first.  The arithmetic is that of the usual build: two's
\* complement with wrap-around, >> of a signed word keeping the sign.
Limb == 65536

ToWord(n) == <<n % Limb, (n \div Limb) % Limb, 0, 0>>

\* The word of the limbs c, each below 2^31: the carries are propagated and
\* the carry out of the last limb is dropped.
Carry(c) ==
    LET l1 == c[1]
        l2 == c[2] + (l1 \div Limb)
        l3 == c[3] + (l2 \div Limb)
        l4 == c[4] + (l3 \div Limb)
    IN  <<l1 % Limb, l2 % Limb, l3 % Limb, l4 % Limb>>

WordAdd(a, b) == Carry(<<a[1] + b[1], a[2] + b[2], a[3] + b[3], a[4] + b[4]>>)

WordNot(a) ==
    <<Limb - 1 - a[1], Limb - 1 - a[2], Limb - 1 - a[3], Limb - 1 - a[4]>>

\* Limb i of a moved up by q limbs and multiplied by 2^r
ShlLimb(a, i, q, r) == IF i - q >= 1 THEN a[i - q] * (2 ^ r) ELSE 0

\* a << n
WordShl(a, n) ==
    Carry(<<ShlLimb(a, 1, n \div 16, n % 16), ShlLimb(a, 2, n \div 16, n % 16),
            ShlLimb(a, 3, n \div 16, n % 16), ShlLimb(a, 4, n \div 16, n % 16)>>)

\* Limb i of the sign-extended a, the sign limb past the fourth
ExtLimb(a, i) ==
    IF i <= 4 THEN a[i] ELSE IF a[4] >= Limb \div 2 THEN Limb - 1 ELSE 0

\* Limb i of a >> (16 q + r)
SarLimb(a, i, q, r) ==
    (ExtLimb(a, i + q) \div (2 ^ r))
      + (ExtLimb(a, i + q + 1) % (2 ^ r)) * (2 ^ (16 - r))

\* a >> n with the sign bit shifted in
WordSar(a, n) ==
    <<SarLimb(a, 1, n \div 16, n % 16), SarLimb(a, 2, n \div 16, n % 16),
      SarLimb(a, 3, n \div 16, n % 16), SarLimb(a, 4, n \div 16, n % 16)>>

\* x ^ y of two numbers below 2^bits
RECURSIVE BitsXor(_, _, _)
BitsXor(x, y, bits) ==
    IF bits = 0 THEN 0
    ELSE ((x + y) % 2) + 2 * BitsXor(x \div 2, y \div 2, bits - 1)

\* x ^ y of two 4-bit numbers, computed once
NibbleXor == [x \in 0..15 |-> [y \in 0..15 |-> BitsXor(x, y, 4)]]

\* x ^ y of two limbs, nibble by nibble
LimbXor(x, y) ==
    NibbleXor[x % 16][y % 16]
      + 16 * NibbleXor[(x \div 16) % 16][(y \div 16) % 16]
      + 256 * NibbleXor[(x \div 256) % 16][(y \div 256) % 16]
      + 4096 * NibbleXor[x \div 4096][y \div 4096]

WordXor(a, b) ==
    <<LimbXor(a[1], b[1]), LimbXor(a[2], b[2]),
      LimbXor(a[3], b[3]), LimbXor(a[4], b[4])>>

\* The hashing step of dictFingerprint: Thomas Wang's 64 bit integer hash.
WangHash(hash) ==
    LET h1 == WordAdd(WordNot(hash), WordShl(hash, 21))
        h2 == WordXor(h1, WordSar(h1, 24))
        h3 == WordAdd(WordAdd(h2, WordShl(h2, 3)), WordShl(h2, 8))
        h4 == WordXor(h3, WordSar(h3, 14))
        h5 == WordAdd(WordAdd(h4, WordShl(h4, 2)), WordShl(h4, 4))
        h6 == WordXor(h5, WordSar(h5, 28))
    IN  WordAdd(h6, WordShl(h6, 31))

\* for (j = 0; j < 6; j++) { hash += integers[j]; hash = the Wang hash of it }
\* The test of hash[1] is never true of a word; with it each round's hash is
\* computed before the next round starts.
RECURSIVE HashIntegers(_, _, _)
HashIntegers(integers, j, hash) ==
    IF j > Len(integers) \/ hash[1] >= Limb THEN hash
    ELSE HashIntegers(integers, j + 1, WangHash(WordAdd(hash, integers[j])))

\* ------------------------------------------------------------ iterators --
\* The entry pointers of an iterator: the entry of key k is k, NULL is 0 and
\* -k is the pointer to an entry of key k that zfree() has released.
HeadOf(chain) == IF chain = <<>> THEN 0 ELSE KeyOf(chain[1].key)

\* he->next of the entry at the place l
NextAt(dd, l) ==
    IF l.t = -1 \/ l.p >= Len(Bucket(dd.ht[l.t], l.i)) THEN 0
    ELSE KeyOf(Bucket(dd.ht[l.t], l.i)[l.p + 1].key)

EntryNext(dd, he) == NextAt(dd, Lookup(dd, he))

NullAddr == ToWord(0)

\* dictFingerprint(d): ad holds the addresses of the two bucket arrays.
dictFingerprint(dd, ad) ==
    HashIntegers(<<ad[1], ToWord(dd.ht[0].size), ToWord(dd.ht[0].used),
                   ad[2], ToWord(dd.ht[1].size), ToWord(dd.ht[1].used)>>,
                 1, ToWord(0))

\* The fingerprint field is not set by dictGetIterator; it is not read before
\* the first dictNext has set it.
dictGetIterator ==
    [table |-> 0, index |-> -1, safe |-> FALSE, entry |-> 0, nextEntry |-> 0,
     fingerprint |-> ToWord(0)]

dictGetSafeIterator == [dictGetIterator EXCEPT !.safe = TRUE]

\* dictNext(iter) gives [d, it, ret]: the dict, the iterator and the entry
\* pointer returned.  junk is what the read of iter->entry->next gives when
\* iter->entry points to released memory.
\* if (iter->entry) { iter->nextEntry = iter->entry->next; return iter->entry; }
NextYield(dd, it, junk) ==
    [d |-> dd,
     it |-> [it EXCEPT !.nextEntry = IF it.entry > 0 THEN EntryNext(dd, it.entry)
                                                      ELSE junk],
     ret |-> it.entry]

RECURSIVE dictNext(_, _, _, _)
NextEntryOrLoop(dd, it, ad, junk) ==
    IF it.entry # 0 THEN NextYield(dd, it, junk) ELSE dictNext(dd, it, ad, junk)

\* Faulty NextBucket: at the end of table 0 the iterator stops even while
\* the dict is rehashing.
NextBucketFirstTableOnly(dd, it, ad, junk) ==
    IF it.index >= dd.ht[it.table].size
      THEN [d |-> dd, it |-> it, ret |-> 0]
      ELSE NextEntryOrLoop(dd, [it EXCEPT !.entry = HeadOf(Bucket(dd.ht[it.table], it.index))],
                           ad, junk)

\* From "if (iter->index >= (long) ht->size)" on, index being incremented.
NextBucket(dd, it, ad, junk) ==
    IF it.index >= dd.ht[it.table].size
      THEN IF dictIsRehashing(dd) /\ it.table = 0
             THEN NextEntryOrLoop(dd, [it EXCEPT !.table = 1, !.index = 0,
                                                 !.entry = HeadOf(Bucket(dd.ht[1], 0))],
                                  ad, junk)
             ELSE [d |-> dd, it |-> it, ret |-> 0]
      ELSE NextEntryOrLoop(dd, [it EXCEPT !.entry = HeadOf(Bucket(dd.ht[it.table], it.index))],
                           ad, junk)

\* Faulty dictNext: the next pointer is not saved, the iterator follows
\* iter->entry->next at the next call.
dictNextNoSavedNext(dd, it, ad, junk) ==
    IF it.entry = 0
      THEN IF it.index = -1 /\ it.table = 0 /\ it.safe
             THEN NextBucket([dd EXCEPT !.iterators = @ + 1],
                             [it EXCEPT !.index = @ + 1], ad, junk)
             ELSE NextBucket(dd, [it EXCEPT !.index = @ + 1], ad, junk)
      ELSE NextEntryOrLoop(dd, [it EXCEPT !.entry = IF it.entry > 0
                                                     THEN EntryNext(dd, it.entry)
                                                     ELSE junk],
                           ad, junk)

\* Faulty dictNext: the first call on an unsafe iterator does not store the
\* fingerprint.
dictNextNoFingerprint(dd, it, ad, junk) ==
    IF it.entry = 0
      THEN IF it.index = -1 /\ it.table = 0 /\ it.safe
             THEN NextBucket([dd EXCEPT !.iterators = @ + 1],
                             [it EXCEPT !.index = @ + 1], ad, junk)
             ELSE NextBucket(dd, [it EXCEPT !.index = @ + 1], ad, junk)
      ELSE NextEntryOrLoop(dd, [it EXCEPT !.entry = it.nextEntry], ad, junk)

dictNext(dd, it, ad, junk) ==
    IF it.entry = 0
      THEN IF it.index = -1 /\ it.table = 0
             THEN IF it.safe
                    THEN NextBucket([dd EXCEPT !.iterators = @ + 1],
                                    [it EXCEPT !.index = @ + 1], ad, junk)
                    ELSE NextBucket(dd, [it EXCEPT !.fingerprint = dictFingerprint(dd, ad),
                                                   !.index = @ + 1], ad, junk)
             ELSE NextBucket(dd, [it EXCEPT !.index = @ + 1], ad, junk)
      ELSE NextEntryOrLoop(dd, [it EXCEPT !.entry = it.nextEntry], ad, junk)

\* Faulty dictReleaseIterator: the fingerprint is not compared.
dictReleaseIteratorNoCheck(dd, it, ad) ==
    IF it.safe /\ ~(it.index = -1 /\ it.table = 0)
      THEN Ret([dd EXCEPT !.iterators = @ - 1], 0)
      ELSE Ret(dd, 0)

dictReleaseIterator(dd, it, ad) ==
    IF ~(it.index = -1 /\ it.table = 0)
      THEN IF it.safe THEN Ret([dd EXCEPT !.iterators = @ - 1], 0)
           ELSE IF it.fingerprint = dictFingerprint(dd, ad) THEN Ret(dd, 0)
           ELSE Abort(dd, 0)
      ELSE Ret(dd, 0)

\* No iterator is open.
NoIter == [open |-> FALSE, it |-> dictGetIterator, done |-> FALSE, six |-> <<>>]

\* ------------------------------------------------------------ actions ----
\* scan.missing holds the keys that were in the dict before the first call of
\* the session, have been there ever since and were not given to the callback.
NoScan == [active |-> FALSE, v |-> 0, missing |-> {}, done |-> FALSE]

Init ==
    /\ d = dictCreate
    /\ dict_can_resize = TRUE
    /\ amap = [k \in Keys |-> ABSENT]
    /\ fatal = FALSE
    /\ scan = NoScan
    /\ iter = NoIter
    /\ addr = <<NullAddr, NullAddr>>

\* The call returned r: the dict is as the call left it, and a failed
\* assert() ends the program.
Returns(r) ==
    /\ ~fatal
    /\ d' = r.d
    /\ fatal' = r.abort
    /\ UNCHANGED <<iter, addr>>

\* KV is the set of <<key, value>> arguments of the calls.
DictAddOver(KV) ==
    \E kv \in KV :
        /\ Returns(dictAdd(d, kv[1], kv[2], dict_can_resize))
        /\ amap' = AbsAdd(amap, KeyOf(kv[1]), kv[2])
        /\ UNCHANGED <<dict_can_resize, scan>>

DictReplaceOver(KV) ==
    \E kv \in KV :
        /\ Returns(dictReplace(d, kv[1], kv[2], dict_can_resize))
        /\ amap' = AbsReplace(amap, KeyOf(kv[1]), kv[2])
        /\ UNCHANGED <<dict_can_resize, scan>>

DictDeleteOver(K) ==
    \E k \in K :
        /\ Returns(dictDelete(d, k))
        /\ amap' = AbsDelete(amap, KeyOf(k))
        /\ scan' = [scan EXCEPT !.missing = @ \ {KeyOf(k)}]
        /\ UNCHANGED dict_can_resize

DictFindOver(K) ==
    \E k \in K :
        /\ Returns(dictFind(d, k))
        /\ UNCHANGED <<amap, dict_can_resize, scan>>

DictExpandOver(S) ==
    \E size \in S :
        /\ Returns(dictExpand(d, size))
        /\ UNCHANGED <<amap, dict_can_resize, scan>>

\* The size arguments: every size up to n + 1 for n keys (so that sizes
\* below, at and above ht[0].used occur) and the powers of two up to max.
ExpandSizes(n, max) ==
    {s \in 0..max : s <= n + 1 \/ _dictNextPower(s) = s}

\* Every key is stored with the value "u", key 1 with the value "w" as well.
KeyVals == {kv \in Keys \X Vals : kv[2] = "u" \/ kv[1] = 1}

CallDictAdd == DictAddOver(KeyVals)

CallDictReplace == DictReplaceOver(KeyVals)

CallDictDelete == DictDeleteOver(Keys)

CallDictFind == DictFindOver(Keys)

CallDictExpand == DictExpandOver(ExpandSizes(NumKeys, MaxSize))

CallDictResize ==
    /\ Returns(dictResize(d, dict_can_resize))
    /\ UNCHANGED <<amap, dict_can_resize, scan>>

CallDictRehash ==
    \E n \in RehashN :
        /\ Returns(dictRehash(d, n))
        /\ UNCHANGED <<amap, dict_can_resize, scan>>

CallDictGetRandomKey ==
    /\ Returns(dictGetRandomKeyStep(d))
    /\ UNCHANGED <<amap, dict_can_resize, scan>>

CallDictGetSomeKeys ==
    \E count \in {1, 2, NumKeys} :
        /\ Returns(dictGetSomeKeysSteps(d, count))
        /\ UNCHANGED <<amap, dict_can_resize, scan>>

CallDictEmpty ==
    /\ Returns(dictEmpty(d))
    /\ amap' = [k \in Keys |-> ABSENT]
    /\ UNCHANGED <<dict_can_resize, scan>>

\* The first dictNext of a safe iterator: iter->d->iterators++.
SafeIteratorFirstNext ==
    /\ ~fatal
    /\ d.iterators < MaxIters
    /\ d' = [d EXCEPT !.iterators = @ + 1]
    /\ UNCHANGED <<amap, dict_can_resize, fatal, scan, iter, addr>>

\* dictReleaseIterator of a safe iterator that was advanced.
SafeIteratorRelease ==
    /\ ~fatal
    /\ d.iterators > 0
    /\ d' = [d EXCEPT !.iterators = @ - 1]
    /\ UNCHANGED <<amap, dict_can_resize, fatal, scan, iter, addr>>

dictEnableResize ==
    /\ dict_can_resize' = TRUE
    /\ UNCHANGED <<d, amap, fatal, scan, iter, addr>>

dictDisableResize ==
    /\ dict_can_resize' = FALSE
    /\ UNCHANGED <<d, amap, fatal, scan, iter, addr>>

Next ==
    \/ CallDictAdd
    \/ CallDictReplace
    \/ CallDictDelete
    \/ CallDictFind
    \/ CallDictExpand
    \/ CallDictResize
    \/ CallDictRehash
    \/ CallDictGetRandomKey
    \/ CallDictGetSomeKeys
    \/ CallDictEmpty
    \/ SafeIteratorFirstNext
    \/ SafeIteratorRelease

Spec == Init /\ [][Next]_vars

\* ------------------------------------------------------ scan sessions ----
\* The keys with an entry in the dict.
StoredKeys(dd) ==
    {KeyOf(e.key) : e \in UNION {UNION {Range(dd.ht[t].table[b]) : b \in DOMAIN dd.ht[t].table}
                                   : t \in 0..1}}

ScanKeys == 1..NumScanKeys

\* One dictScan call of a session: the first call is made with cursor 0, each
\* later call with the cursor the call before returned, and the session is
\* over when a call returns 0.
CallDictScan ==
    LET v == IF scan.active THEN scan.v ELSE 0
        before == IF scan.active THEN scan.missing ELSE StoredKeys(d)
        r == dictScan(d, v)
    IN  /\ ~fatal
        /\ scan' = [active |-> r.ret # 0,
                    v |-> r.ret,
                    missing |-> before \ {KeyOf(k) : k \in Range(r.emitted)},
                    done |-> r.ret = 0]
        /\ UNCHANGED <<d, dict_can_resize, amap, fatal, iter, addr>>

SessionAdd == DictAddOver(ScanKeys \X {"u"})

SessionDelete == DictDeleteOver(ScanKeys)

SessionFind == DictFindOver(ScanKeys)

SessionExpand == DictExpandOver(ExpandSizes(NumScanKeys, MaxScanSize))

NextScan ==
    \/ CallDictScan
    \/ SessionAdd
    \/ SessionDelete
    \/ SessionFind
    \/ SessionExpand
    \/ CallDictResize
    \/ CallDictRehash

SpecScan == Init /\ [][NextScan]_vars

\* C1: when a scan session that started at cursor 0 ends (a call returns 0),
\* every key that was in the dict from before the first call until after the
\* last one has been given to the callback at least once.
ScanVisitsAllPresentKeys == scan.done => scan.missing = {}

\* ------------------------------------------------- key objects ----------
\* Calls whose key argument is either of the two objects of a key.
ObjKeys == {o \in 1..(2 * NumKeys) : KeyOf(o) <= NumObjKeys}

ObjAdd == DictAddOver(ObjKeys \X Vals)

ObjReplace == DictReplaceOver(ObjKeys \X Vals)

ObjDelete == DictDeleteOver(ObjKeys)

ObjExpand == DictExpandOver(ExpandSizes(NumObjKeys, MaxSize))

NextObj ==
    \/ ObjAdd
    \/ ObjReplace
    \/ ObjDelete
    \/ ObjExpand
    \/ CallDictRehash

SpecObj == Init /\ [][NextObj]_vars

\* -------------------------------------------------- iterator sessions ----
\* One iterator at a time is created, advanced and released while the dict is
\* used.  iter.it is the dictIterator; iter.done says that dictNext returned
\* NULL; iter.six is a ghost, the six values dictFingerprint read at the first
\* dictNext of an unsafe iterator.
IterKeys == 1..NumIterKeys

\* The addresses zcalloc() gives to the bucket arrays: two 16-byte aligned
\* addresses, 0x5555556bf4c0 and 0x4a90e72767a0.
TableAddrs == {<<62656, 21867, 21845, 0>>, <<26528, 59175, 19088, 0>>}

\* The six values dictFingerprint hashes.
Observed(dd, ad) ==
    <<ad[1], dd.ht[0].size, dd.ht[0].used, ad[2], dd.ht[1].size, dd.ht[1].used>>

\* A call took the dict from dd to ee.  It ended a rehash (ht[0] = ht[1], the
\* two sizes always differ) when ht[0].size changed during a rehash; it
\* allocated a bucket array when ht[0] got its first one or a rehash started.
RehashEnded(dd, ee) == dictIsRehashing(dd) /\ ee.ht[0].size # dd.ht[0].size

RehashStarted(dd, ee) ==
    dictIsRehashing(ee) /\ (~dictIsRehashing(dd) \/ RehashEnded(dd, ee))

FirstTable(dd, ee) == dd.ht[0].size = 0 /\ ee.ht[0].size # 0

\* The addresses of the two arrays after the call, new being the address
\* zcalloc() returned if the call allocated an array.
AddrAfter(dd, ee, ad, new) ==
    <<IF RehashEnded(dd, ee) THEN ad[2]
      ELSE IF FirstTable(dd, ee) THEN new ELSE ad[1],
      IF ~dictIsRehashing(ee) THEN NullAddr
      ELSE IF RehashStarted(dd, ee) THEN new ELSE ad[2]>>

\* zfree(he): the pointers of the iterator to the entry of key k dangle.
Freed(it, k) ==
    [it EXCEPT !.entry = IF @ = k THEN -k ELSE @,
               !.nextEntry = IF @ = k THEN -k ELSE @]

\* What a read of released memory may give as a next pointer.
JunkPointers == {0} \cup IterKeys \cup {-k : k \in IterKeys}

\* The call returned r and left the iterator as it2; an array the call
\* allocated is at an address not in use.
IterCall(r, it2) ==
    /\ ~fatal
    /\ d' = r.d
    /\ fatal' = r.abort
    /\ iter' = it2
    /\ \E new \in TableAddrs :
           /\ addr' = AddrAfter(d, r.d, addr, new)
           /\ addr'[1] # addr'[2] \/ r.d.ht[0].size = 0
    /\ UNCHANGED <<dict_can_resize, scan>>

IterGetOf(safe) ==
    /\ ~fatal /\ ~iter.open
    /\ iter' = [NoIter EXCEPT !.open = TRUE,
                              !.it = IF safe THEN dictGetSafeIterator
                                             ELSE dictGetIterator]
    /\ UNCHANGED <<d, dict_can_resize, amap, fatal, scan, addr>>

\* The iterator session after dictNext gave r.
IterAdvanced(r) ==
    [iter EXCEPT !.it = r.it,
                 !.done = r.ret = 0,
                 !.six = IF iter.it.index = -1 /\ iter.it.table = 0 /\ ~iter.it.safe
                           THEN Observed(d, addr) ELSE @]

\* A dictNext that returned a pointer to released memory has read that
\* memory: the behaviour of the program is undefined from there on and is not
\* followed further.
IterNextReturns(r) ==
    /\ d' = r.d
    /\ iter' = IterAdvanced(r)
    /\ fatal' = (r.ret < 0)
    /\ UNCHANGED <<dict_can_resize, amap, scan, addr>>

IterNext ==
    /\ ~fatal /\ iter.open /\ ~iter.done
    /\ \E junk \in IF iter.it.entry # 0 /\ iter.it.nextEntry < 0
                     THEN JunkPointers ELSE {0} :
           IterNextReturns(dictNext(d, iter.it, addr, junk))

IterRelease ==
    /\ iter.open
    /\ IterCall(dictReleaseIterator(d, iter.it, addr), NoIter)
    /\ UNCHANGED amap

IterAddOver(K) ==
    \E k \in K :
        /\ IterCall(dictAdd(d, k, "u", dict_can_resize), iter)
        /\ amap' = AbsAdd(amap, k, "u")

IterReplaceOver(K) ==
    \E k \in K :
        /\ IterCall(dictReplace(d, k, "u", dict_can_resize), iter)
        /\ amap' = AbsReplace(amap, k, "u")

IterFindOver(K) ==
    \E k \in K :
        /\ IterCall(dictFind(d, k), iter)
        /\ UNCHANGED amap

IterDeleted(r, k) ==
    IterCall(r, IF r.ret = DICT_OK THEN [iter EXCEPT !.it = Freed(@, k)] ELSE iter)

IterDeleteOver(K) ==
    \E k \in K :
        /\ IterDeleted(dictDelete(d, k), k)
        /\ amap' = AbsDelete(amap, k)

IterExpandOver(S) ==
    /\ \E size \in S : IterCall(dictExpand(d, size), iter)
    /\ UNCHANGED amap

IterRehash ==
    /\ \E n \in RehashN : IterCall(dictRehash(d, n), iter)
    /\ UNCHANGED amap

\* Sessions of a safe iterator: dictAdd, dictReplace, dictFind and dictDelete
\* are called at any time, dictExpand and dictRehash while no iterator is
\* open.
SafeGet == IterGetOf(TRUE)

SafeAdd == IterAddOver(IterKeys)

SafeReplace == IterReplaceOver(IterKeys)

SafeFind == IterFindOver(IterKeys)

SafeDelete == IterDeleteOver(IterKeys)

SafeExpand == ~iter.open /\ IterExpandOver(ExpandSizes(NumIterKeys, MaxSize))

SafeRehash == ~iter.open /\ IterRehash

NextIter ==
    \/ SafeGet
    \/ IterNext
    \/ IterRelease
    \/ SafeAdd
    \/ SafeReplace
    \/ SafeFind
    \/ SafeDelete
    \/ SafeExpand
    \/ SafeRehash

SpecIter == Init /\ [][NextIter]_vars

\* Sessions of an unsafe iterator, the dict being written at any time.
FingerKeys == 1..NumFingerKeys

UnsafeGet == IterGetOf(FALSE)

FingerAdd == IterAddOver(FingerKeys)

FingerDelete == IterDeleteOver(FingerKeys)

FingerExpand == IterExpandOver(ExpandSizes(NumFingerKeys, MaxSize))

NextFinger ==
    \/ UnsafeGet
    \/ IterNext
    \/ IterRelease
    \/ FingerAdd
    \/ FingerDelete
    \/ FingerExpand
    \/ IterRehash

SpecFinger == Init /\ [][NextFinger]_vars

\* ------------------------------------------------ what the tables hold ---
\* The entry pointers of the dict: one for each entry linked in a chain.
Places(dd) ==
    UNION {UNION {{[t |-> t, i |-> b - 1, p |-> p] : p \in 1..Len(dd.ht[t].table[b])}
                    : b \in DOMAIN dd.ht[t].table}
             : t \in 0..1}

PlacesOf(dd, k) == {he \in Places(dd) : KeyOf(EntryAt(dd, he).key) = k}

\* The entries linked in the chains of table t.
TableEntries(dd, t) ==
    UNION {Range(dd.ht[t].table[b]) : b \in DOMAIN dd.ht[t].table}

Pairs(dd) == TableEntries(dd, 0) \cup TableEntries(dd, 1)

ChainCount(dd, t) == Cardinality({he \in Places(dd) : he.t = t})

Present(k) == amap[k] # ABSENT

\* ---------------------------------------------------------------- C2 -----
\* C2: the dict refines the abstract map amap that add, replace and delete
\* update as map operations: in every state dictFind(k) returns an entry, with
\* the key k and the map's value for k, exactly when k is in the map; dictAdd
\* succeeds exactly when k is not in the map and a dictFind after it returns
\* the value added; dictReplace is followed by a dictFind of its value;
\* dictDelete succeeds exactly when k is in the map and a dictFind after it
\* returns not-found.
FindAgreesWithMap ==
    /\ \A k \in Keys :
           LET f == dictFind(d, k)
               x == dictDelete(d, k)
           IN  /\ ~f.abort
               /\ (f.ret # NULL) <=> Present(k)
               /\ f.ret # NULL =>
                      /\ KeyOf(EntryAt(f.d, f.ret).key) = k
                      /\ EntryAt(f.d, f.ret).val = amap[k]
               /\ (x.ret = DICT_OK) <=> Present(k)
               /\ dictFind(x.d, k).ret = NULL
    /\ \A kv \in KeyVals :
           LET a == dictAdd(d, kv[1], kv[2], dict_can_resize)
               fa == dictFind(a.d, kv[1])
               r == dictReplace(d, kv[1], kv[2], dict_can_resize)
               fr == dictFind(r.d, kv[1])
           IN  /\ (a.ret = DICT_OK) <=> ~Present(kv[1])
               /\ fa.ret # NULL
               /\ EntryAt(fa.d, fa.ret).val = AbsAdd(amap, kv[1], kv[2])[kv[1]]
               /\ ~r.abort /\ fr.ret # NULL
               /\ EntryAt(fr.d, fr.ret).val = kv[2]

\* A rehash is under way with no safe iterator open, a key that was given the
\* value "w" is found in ht[1], another key is found in ht[0], and a third is
\* in neither the map nor the dict.
FindAgreesWithMapWitness ==
    /\ dictIsRehashing(d) /\ d.iterators = 0
    /\ \E k1, k2, k3 \in Keys :
           /\ amap[k1] = "w" /\ dictFind(d, k1).ret.t = 1
           /\ Present(k2) /\ dictFind(d, k2).ret.t = 0
           /\ ~Present(k3) /\ dictFind(d, k3).ret = NULL

\* ---------------------------------------------------------------- C3 -----
\* C3: in every state each table's used field is the number of entries linked
\* in its chains, and ht[0].used + ht[1].used is the number of distinct keys
\* stored (the keys of the abstract map).
UsedCountsEntries ==
    /\ \A t \in 0..1 : d.ht[t].used = ChainCount(d, t)
    /\ dictSize(d) = Cardinality({k \in Keys : Present(k)})

\* Both tables hold entries during a rehash, three keys are stored and a
\* delete of one of them succeeds and leaves the counts right.
UsedCountsEntriesWitness ==
    /\ dictIsRehashing(d)
    /\ d.ht[0].used >= 1 /\ d.ht[1].used >= 2
    /\ \E k \in Keys :
           LET x == dictDelete(d, k)
           IN  /\ x.ret = DICT_OK
               /\ dictSize(x.d) = dictSize(d) - 1
               /\ \A t \in 0..1 : x.d.ht[t].used = ChainCount(x.d, t)

\* ---------------------------------------------------------------- C4 -----
\* C4: in every state, rehashing or not, each key of the map has exactly one
\* entry in ht[0] and ht[1] taken together, and a key not in the map has none.
EachKeyHasOneEntry ==
    \A k \in Keys :
        Cardinality(PlacesOf(d, k)) = IF Present(k) THEN 1 ELSE 0

\* A rehash is under way, a stored key sits in ht[1], and a dictAdd of that
\* key is refused while ht[0] still holds another key.
EachKeyHasOneEntryWitness ==
    /\ dictIsRehashing(d)
    /\ d.ht[0].used >= 1
    /\ \E k \in Keys :
           /\ PlacesOf(d, k) # {}
           /\ \A he \in PlacesOf(d, k) : he.t = 1
           /\ dictAdd(d, k, "u", dict_can_resize).ret = DICT_ERR

\* ---------------------------------------------------------------- C5 -----
\* The number of dictRehash(d, 1) calls, each on the dict the call before
\* left, until the dict is idle; -1 when a call aborts or fuel calls do not
\* reach the idle state.
RECURSIVE CallsToIdle(_, _)
RECURSIVE CallsToIdleNext(_, _)
CallsToIdle(dd, fuel) ==
    IF ~dictIsRehashing(dd) THEN 0
    ELSE IF fuel = 0 THEN -1
    ELSE CallsToIdleNext(dictRehash(dd, 1), fuel)

CallsToIdleNext(r, fuel) ==
    IF r.abort THEN -1
    ELSE IF CallsToIdle(r.d, fuel - 1) = -1 THEN -1
    ELSE CallsToIdle(r.d, fuel - 1) + 1

\* The same with dictFind(d, key) as the call, an operation that performs the
\* rehash step when the dict holds an entry.
RECURSIVE FindsToIdle(_, _, _)
RECURSIVE FindsToIdleNext(_, _, _)
FindsToIdle(dd, key, fuel) ==
    IF ~dictIsRehashing(dd) THEN 0
    ELSE IF fuel = 0 THEN -1
    ELSE FindsToIdleNext(dictFind(dd, key), key, fuel)

FindsToIdleNext(r, key, fuel) ==
    IF r.abort THEN -1
    ELSE IF FindsToIdle(r.d, key, fuel - 1) = -1 THEN -1
    ELSE FindsToIdle(r.d, key, fuel - 1) + 1

\* The call that took dd to ee did not leave rehashidx, ht[0].used and the
\* buckets of ht[0] all as they were.
RehashProgress(dd, ee) ==
    \/ ee.rehashidx # dd.rehashidx
    \/ ee.ht[0].used # dd.ht[0].used
    \/ ee.ht[0].table # dd.ht[0].table

\* C5: from every state in which the dict is rehashing, at most
\* ht[0].size + 1 successive calls of dictRehash(d, 1) bring it to the idle
\* state, and so do that many calls of an operation that performs the rehash
\* step while no safe iterator is open; no such call leaves rehashidx,
\* ht[0].used and the buckets all unchanged.
RehashReachesIdle ==
    dictIsRehashing(d) =>
        /\ CallsToIdle(d, d.ht[0].size + 1) # -1
        /\ RehashProgress(d, dictRehash(d, 1).d)
        /\ d.iterators = 0 =>
               /\ RehashProgress(d, _dictRehashStep(d).d)
               /\ \A k \in ScanKeys :
                      /\ RehashProgress(d, dictAdd(d, k, "u", dict_can_resize).d)
                      /\ RehashProgress(d, dictDelete(d, k).d)
                      /\ dictSize(d) > 0 =>
                             /\ RehashProgress(d, dictFind(d, k).d)
                             /\ FindsToIdle(d, k, d.ht[0].size + 1) # -1

\* A table of 16 buckets is being rehashed and the first dictRehash(d, 1)
\* stops after its ten empty buckets without moving an entry; the dict is
\* idle after the second call.
RehashReachesIdleWitness ==
    /\ dictIsRehashing(d) /\ d.rehashidx = 0 /\ d.ht[0].used > 0
    /\ dictRehash(d, 1).ret = 1
    /\ dictRehash(d, 1).d.rehashidx = 10
    /\ dictRehash(d, 1).d.ht[0].used = d.ht[0].used
    /\ CallsToIdle(d, d.ht[0].size + 1) = 2

\* ---------------------------------------------------------------- C6 -----
\* C6: a call of dictRehash(d, n) only moves entries from ht[0] to ht[1]:
\* the (key, value) entries stored and the number of entries linked are
\* the same after the call, ht[0].used + ht[1].used is the same, and either
\* the tables keep their sizes, no entry enters ht[0] and none leaves ht[1],
\* or the rehash is complete and what was ht[1], holding every entry, is now
\* ht[0].
RehashOnlyMovesEntries ==
    \A n \in RehashN :
        LET r == dictRehash(d, n)
        IN  /\ ~r.abort
            /\ Pairs(r.d) = Pairs(d)
            /\ Cardinality(Places(r.d)) = Cardinality(Places(d))
            /\ dictSize(r.d) = dictSize(d)
            /\ r.d.iterators = d.iterators
            /\ ~dictIsRehashing(d) => r.d = d
            /\ dictIsRehashing(r.d) =>
                   /\ r.ret = 1
                   /\ \A t \in 0..1 : r.d.ht[t].size = d.ht[t].size
                   /\ TableEntries(r.d, 0) \subseteq TableEntries(d, 0)
                   /\ TableEntries(d, 1) \subseteq TableEntries(r.d, 1)
                   /\ r.d.rehashidx >= d.rehashidx
            /\ dictIsRehashing(d) /\ ~dictIsRehashing(r.d) =>
                   /\ r.ret = 0
                   /\ r.d.ht[0].size = d.ht[1].size
                   /\ r.d.ht[1] = EmptyHt

\* A call moves a chain of two entries to ht[1], which held an entry already,
\* and leaves an entry behind in ht[0].
RehashOnlyMovesEntriesWitness ==
    /\ dictIsRehashing(d) /\ d.ht[1].used >= 1
    /\ \E n \in RehashN :
           LET r == dictRehash(d, n)
           IN  /\ dictIsRehashing(r.d)
               /\ r.d.ht[0].used >= 1
               /\ r.d.ht[1].used >= d.ht[1].used + 2

\* ---------------------------------------------------------- C7, C8 -----
\* P holds of the dict that a find, a delete, a get-random-key or a
\* get-some-keys call on dd leaves, whatever the arguments; and of the dict
\* that an add or a replace leaves.
AfterReadOrDelete(dd, P(_)) ==
    /\ P(dictGetRandomKeyStep(dd).d)
    /\ \A count \in 1..NumKeys : P(dictGetSomeKeysSteps(dd, count).d)
    /\ \A k \in Keys : P(dictFind(dd, k).d) /\ P(dictDelete(dd, k).d)

AfterAddOrReplace(dd, can_resize, P(_)) ==
    \A kv \in KeyVals :
        /\ P(dictAdd(dd, kv[1], kv[2], can_resize).d)
        /\ P(dictReplace(dd, kv[1], kv[2], can_resize).d)

\* C7 as the specification states it: while a safe iterator is open no add,
\* replace, find, delete, get-random-key or get-some-keys call changes
\* rehashidx, whether the dict is idle or rehashing and whatever its load.
SafeIteratorFreezesRehashidx ==
    d.iterators >= 1 =>
        LET Same(e) == e.rehashidx = d.rehashidx
        IN  /\ AfterReadOrDelete(d, Same)
            /\ AfterAddOrReplace(d, dict_can_resize, Same)

\* C7: while a safe iterator is open, a find, delete, get-random-key or
\* get-some-keys call does not change rehashidx, and an add or replace call
\* does not change it when the dict is rehashing; on an idle dict with
\* ht[0].used >= ht[0].size an add or replace may start a rehash (rehashidx
\* goes from -1 to 0), which moves no entry: ht[0] keeps its entries and
\* ht[1] holds at most the entry just added.
SafeIteratorBlocksRehashStep ==
    d.iterators >= 1 =>
        LET Same(e) == e.rehashidx = d.rehashidx
            SameOrStarted(e) ==
                \/ e.rehashidx = d.rehashidx
                \/ /\ ~dictIsRehashing(d)
                   /\ d.ht[0].used >= d.ht[0].size
                   /\ e.rehashidx = 0
                   /\ e.ht[0].used = d.ht[0].used
                   /\ e.ht[1].used <= 1
        IN  /\ AfterReadOrDelete(d, Same)
            /\ AfterAddOrReplace(d, dict_can_resize, SameOrStarted)

\* A safe iterator is open on an idle dict with a full table of four entries:
\* a dictAdd of a stored key fails and leaves the dict rehashing at index 0,
\* and a dictFind leaves rehashidx at -1.
SafeIteratorBlocksRehashStepWitness ==
    /\ d.iterators >= 1 /\ ~dictIsRehashing(d)
    /\ d.ht[0].used = d.ht[0].size /\ d.ht[0].size = DICT_HT_INITIAL_SIZE
    /\ \E k \in Keys :
           /\ Present(k)
           /\ dictAdd(d, k, "u", dict_can_resize).ret = DICT_ERR
           /\ dictAdd(d, k, "u", dict_can_resize).d.rehashidx = 0
           /\ dictFind(d, k).d.rehashidx = -1

\* The chains of dd without the entries of key k.
ChainsWithoutKey(dd, k) ==
    [t \in 0..1 |->
        [b \in DOMAIN dd.ht[t].table |->
            SelectSeq(dd.ht[t].table[b], LAMBDA e : KeyOf(e.key) # k)]]

\* ee is dd but for the entries of key k: rehashidx, the iterator count, the
\* table sizes and every other entry's place are the same.
SameButKey(dd, ee, k) ==
    /\ ee.rehashidx = dd.rehashidx
    /\ ee.iterators = dd.iterators
    /\ \A t \in 0..1 : ee.ht[t].size = dd.ht[t].size
    /\ ChainsWithoutKey(ee, k) = ChainsWithoutKey(dd, k)

\* C8: while the dict is rehashing and a safe iterator is open, a find, a
\* get-random-key and a get-some-keys call leave the dict as it is, a delete
\* takes out the entry of its key and nothing else, an add leaves the dict as
\* it is when the key is stored and else puts in the one new entry, a replace
\* touches the entry of its key only: no bucket is migrated and rehashidx
\* stays where it is.
SafeIteratorStopsMigration ==
    d.iterators >= 1 /\ dictIsRehashing(d) =>
        /\ dictGetRandomKeyStep(d).d = d
        /\ \A count \in 1..NumKeys : dictGetSomeKeysSteps(d, count).d = d
        /\ \A k \in Keys :
               LET x == dictDelete(d, k)
               IN  /\ dictFind(d, k).d = d
                   /\ SameButKey(d, x.d, k)
                   /\ Lookup(x.d, k).t = -1
                   /\ dictSize(x.d) = dictSize(d) - (IF Present(k) THEN 1 ELSE 0)
        /\ \A kv \in KeyVals :
               LET a == dictAdd(d, kv[1], kv[2], dict_can_resize)
                   r == dictReplace(d, kv[1], kv[2], dict_can_resize)
                   n == dictSize(d) + (IF Present(kv[1]) THEN 0 ELSE 1)
               IN  /\ Present(kv[1]) => a.d = d
                   /\ SameButKey(d, a.d, kv[1])
                   /\ SameButKey(d, r.d, kv[1])
                   /\ dictSize(a.d) = n /\ dictSize(r.d) = n
                   /\ Lookup(a.d, kv[1]).t # -1
                   /\ Lookup(r.d, kv[1]).t # -1

\* A safe iterator is open, the bucket at rehashidx holds an entry that a
\* rehash step would move, and a dictAdd of a new key succeeds, a dictFind of
\* a stored key finds it and a dictDelete of it succeeds.
SafeIteratorStopsMigrationWitness ==
    /\ d.iterators >= 1 /\ dictIsRehashing(d)
    /\ d.rehashidx < d.ht[0].size
    /\ Bucket(d.ht[0], d.rehashidx) # <<>>
    /\ dictRehash(d, 1).d.ht[1].used > d.ht[1].used
    /\ \E k1, k2 \in Keys :
           /\ dictAdd(d, k1, "u", dict_can_resize).ret = DICT_OK
           /\ dictFind(d, k2).ret # NULL
           /\ dictDelete(d, k2).ret = DICT_OK

\* ---------------------------------------------------------------- C9 -----
\* C9 as the specification states it: dictAdd with a key that is stored
\* returns DICT_ERR and leaves the whole dict (entries, used counts, table
\* sizes, rehashidx) as it was.
AddExistingKeyChangesNothing ==
    \A kv \in KeyVals :
        Present(kv[1]) =>
            /\ dictAdd(d, kv[1], kv[2], dict_can_resize).ret = DICT_ERR
            /\ dictAdd(d, kv[1], kv[2], dict_can_resize).d = d

\* C9: dictAdd with a key that is stored returns DICT_ERR and adds, removes
\* and changes no entry: the (key, value) entries stored, the number of
\* entries and the iterator count are as before.  The dict is left exactly
\* as it was unless the call made its rehash step (dict rehashing, no safe
\* iterator open) or its expand-if-needed check started a rehash (dict idle,
\* ht[0].used >= ht[0].size); what the call leaves is what these two leave.
AddExistingKeyKeepsEntries ==
    \A kv \in KeyVals :
        LET a == dictAdd(d, kv[1], kv[2], dict_can_resize)
        IN  Present(kv[1]) =>
                /\ ~a.abort /\ a.ret = DICT_ERR
                /\ Pairs(a.d) = Pairs(d)
                /\ Cardinality(Places(a.d)) = Cardinality(Places(d))
                /\ dictSize(a.d) = dictSize(d)
                /\ a.d.iterators = d.iterators
                /\ a.d = _dictExpandIfNeeded(StepIfRehashing(d).d, dict_can_resize).d
                /\ \/ a.d = d
                   \/ dictIsRehashing(d) /\ d.iterators = 0
                   \/ ~dictIsRehashing(d) /\ d.ht[0].used >= d.ht[0].size

\* dictAdd of a stored key fails in a state where its rehash step moves
\* an entry to ht[1], and in a state where its expand-if-needed check starts
\* a rehash of the full idle table.
AddExistingKeyKeepsEntriesWitness ==
    \E k \in Keys :
        LET a == dictAdd(d, k, "w", dict_can_resize)
        IN  /\ <<k, "w">> \in KeyVals
            /\ Present(k) /\ amap[k] = "u"
            /\ a.ret = DICT_ERR
            /\ \/ /\ dictIsRehashing(d) /\ dictIsRehashing(a.d)
                  /\ a.d.ht[1].used > d.ht[1].used
               \/ /\ ~dictIsRehashing(d) /\ a.d.rehashidx = 0
                  /\ a.d.ht[1].size = 2 * DICT_HT_INITIAL_SIZE

\* --------------------------------------------------------------- C10 -----
\* C10: dictReplace of a key that is not stored returns 1 and adds the entry
\* (key object of the call, value of the call), one entry more in total;
\* dictReplace of a stored key returns 0, leaves ht[0].used + ht[1].used as
\* it was, leaves the entry of the key with the key object it had and the
\* value of the call, and changes no other entry.
ReplaceKeepsKeyObject ==
    \A key \in ObjKeys, v \in Vals :
        LET r == dictReplace(d, key, v, dict_can_resize)
            old == Lookup(d, key)
        IN  /\ ~r.abort
            /\ ~Present(KeyOf(key)) =>
                   /\ r.ret = 1
                   /\ dictSize(r.d) = dictSize(d) + 1
                   /\ Pairs(r.d) = Pairs(d) \cup {[key |-> key, val |-> v]}
            /\ Present(KeyOf(key)) =>
                   /\ r.ret = 0
                   /\ dictSize(r.d) = dictSize(d)
                   /\ EntryAt(r.d, Lookup(r.d, key)).key = EntryAt(d, old).key
                   /\ EntryAt(r.d, Lookup(r.d, key)).val = v
                   /\ Pairs(r.d) = (Pairs(d) \ {EntryAt(d, old)})
                                     \cup {[key |-> EntryAt(d, old).key, val |-> v]}
            /\ Cardinality(PlacesOf(r.d, KeyOf(key))) = 1

\* A key is stored under one key object with value "u" next to another
\* entry, and dictReplace with the other key object of the key and value "w"
\* returns 0 and leaves the first object in the entry.
ReplaceKeepsKeyObjectWitness ==
    \E key \in ObjKeys :
        LET r == dictReplace(d, key, "w", dict_can_resize)
            old == Lookup(d, key)
        IN  /\ Present(KeyOf(key)) /\ dictSize(d) >= 2
            /\ EntryAt(d, old).key # key
            /\ EntryAt(d, old).val = "u"
            /\ r.ret = 0
            /\ EntryAt(r.d, Lookup(r.d, key)) = [key |-> EntryAt(d, old).key, val |-> "w"]

\* --------------------------------------------------------------- C11 -----
\* The value callbacks of the dictType a call invokes, in the order of the
\* calls: valDup with the value it is given, valDestructor with the value it
\* frees.  dictSetVal invokes valDup, dictFreeVal invokes valDestructor.
\* Faulty ReplaceCallbacks: the old value is freed before the new one is set.
ReplaceCallbacksFreeFirst(f, val) ==
    <<[fn |-> "valDestructor", val |-> EntryAt(f.d, f.ret).val],
      [fn |-> "valDup", val |-> val]>>

\* auxentry = *entry; dictSetVal(d, entry, val); dictFreeVal(d, &auxentry);
\* f is what dictFind gave.
ReplaceCallbacks(f, val) ==
    <<[fn |-> "valDup", val |-> val],
      [fn |-> "valDestructor", val |-> EntryAt(f.d, f.ret).val]>>

\* The value callbacks of dictReplace: the dictSetVal of dictAdd when the key
\* was added, else those of the replacement of the value.
dictReplaceCallbacks(dd, key, val, can_resize) ==
    LET a == dictAdd(dd, key, val, can_resize)
    IN  IF a.ret = DICT_OK THEN <<[fn |-> "valDup", val |-> val]>>
        ELSE ReplaceCallbacks(dictFind(a.d, key), val)

\* A reference-counted value object: valDup takes a reference, valDestructor
\* drops one.  The counts of the object after each callback of the sequence,
\* n being the count before.
RECURSIVE RefCounts(_, _, _)
RefCounts(calls, obj, n) ==
    IF calls = <<>> THEN <<>>
    ELSE LET c == Head(calls)
             n1 == IF c.val # obj THEN n
                   ELSE IF c.fn = "valDup" THEN n + 1 ELSE n - 1
         IN  <<n1>> \o RefCounts(Tail(calls), obj, n1)

\* The references the entries of the dict hold on the value object.
RefsHeld(dd, obj) ==
    Cardinality({he \in Places(dd) : EntryAt(dd, he).val = obj})

\* C11: dictReplace of a stored key invokes valDup on the new value and then
\* valDestructor on the value the entry had, in this order and nothing else;
\* so the reference count of a value object held by the entries of the dict
\* only, given again as the new value of an entry that holds it, is never
\* zero during the call and is afterwards what it was.
ReplaceSetsBeforeFree ==
    \A key \in ObjKeys, v \in Vals :
        LET calls == dictReplaceCallbacks(d, key, v, dict_can_resize)
            old == EntryAt(d, Lookup(d, key)).val
            counts == RefCounts(calls, v, RefsHeld(d, v))
        IN  Present(KeyOf(key)) =>
                /\ calls = <<[fn |-> "valDup", val |-> v],
                             [fn |-> "valDestructor", val |-> old]>>
                /\ old = v =>
                       /\ \A i \in 1..Len(counts) : counts[i] > 0
                       /\ counts[Len(counts)] = RefsHeld(d, v)

\* The entry of a key is the only holder of the value object "w", and
\* dictReplace is called on the key with "w" again: the count goes from
\* 1 to 2 and back to 1.
ReplaceSetsBeforeFreeWitness ==
    \E key \in ObjKeys :
        /\ Present(KeyOf(key))
        /\ EntryAt(d, Lookup(d, key)).val = "w"
        /\ RefsHeld(d, "w") = 1
        /\ dictReplace(d, key, "w", dict_can_resize).ret = 0
        /\ RefCounts(dictReplaceCallbacks(d, key, "w", dict_can_resize), "w", 1)
             = <<2, 1>>

RECURSIVE IterateSeq(_, _)
IterateAll(dd, it, ad) == IterateSeq(dictNext(dd, it, ad, 0), ad)

IterateSeq(r, ad) ==
    IF r.ret = 0 THEN [d |-> r.d, it |-> r.it, seq |-> <<>>]
    ELSE [IterateAll(r.d, r.it, ad) EXCEPT !.seq = <<r.ret>> \o @]

\* The keys of the entries of table t, bucket 0 first, each chain from its
\* head.
RECURSIVE KeysFrom(_, _)
KeysFrom(ht, i) ==
    IF i >= ht.size THEN <<>>
    ELSE [p \in 1..Len(Bucket(ht, i)) |-> KeyOf(Bucket(ht, i)[p].key)]
           \o KeysFrom(ht, i + 1)

\* C13: an iterator of either mode, created in any state of the dict (idle or
\* rehashing) and advanced until dictNext returns NULL with no other call in
\* between, returns the entries of ht[0] and, while rehashing, those of
\* ht[1], each exactly once (bucket by bucket, each chain from its head);
\* the tables are left as they were.
IteratorReturnsEachEntryOnce ==
    \A it \in {dictGetIterator, dictGetSafeIterator} :
        LET r == IterateAll(d, it, addr)
        IN  /\ r.seq = KeysFrom(d.ht[0], 0) \o KeysFrom(d.ht[1], 0)
            /\ Len(r.seq) = dictSize(d)
            /\ \A k \in StoredKeys(d) :
                   Cardinality({j \in 1..Len(r.seq) : r.seq[j] = k}) = 1
            /\ r.d.ht = d.ht /\ r.d.rehashidx = d.rehashidx

\* A rehash is under way, both tables hold entries, one chain holds two, and
\* the iteration returns an entry of ht[0] first and one of ht[1] last.
IteratorReturnsEachEntryOnceWitness ==
    /\ dictIsRehashing(d)
    /\ d.ht[0].used >= 1 /\ d.ht[1].used >= 2
    /\ \E t \in 0..1 : \E b \in DOMAIN d.ht[t].table : Len(d.ht[t].table[b]) >= 2
    /\ \A it \in {dictGetIterator, dictGetSafeIterator} :
           LET r == IterateAll(d, it, addr)
           IN  /\ Len(r.seq) = dictSize(d)
               /\ Lookup(d, r.seq[1]).t = 0
               /\ Lookup(d, r.seq[Len(r.seq)]).t = 1

\* --------------------------------------------------------------- C14 -----
\* dictNext called on the iterator until it returns NULL, the entry returned
\* being deleted with dictDelete after each call: seq holds the pointers
\* returned.  The walk ends as well when a pointer to a released entry is
\* returned.
RECURSIVE DrainSeq(_, _, _)
DrainAll(dd, it, ad, junk) == DrainSeq(dictNext(dd, it, ad, junk), ad, junk)

DrainSeq(r, ad, junk) ==
    IF r.ret = 0 THEN [d |-> r.d, it |-> r.it, seq |-> <<>>]
    ELSE IF r.ret < 0 THEN [d |-> r.d, it |-> r.it, seq |-> <<r.ret>>]
    ELSE [DrainAll(dictDelete(r.d, r.ret).d, Freed(r.it, r.ret), ad, junk)
            EXCEPT !.seq = <<r.ret>> \o @]

\* What the released entry is taken to hold in the walks below: NULL, a
\* pointer to an entry, a pointer to a released entry.
DrainJunk == {0, 1, -1}

\* C14: a safe iterator advanced until dictNext returns NULL, the caller
\* deleting each entry right after dictNext returned it and nothing else,
\* returns every entry the dict held at the first dictNext exactly once and
\* never a pointer to a deleted entry, whatever the released entries hold;
\* at the end the dict holds no entry, and the iterator is released without
\* a failed assert.
SafeIteratorSurvivesDeletes ==
    \A junk \in DrainJunk :
        LET r == DrainAll(d, dictGetSafeIterator, addr, junk)
        IN  /\ \A j \in 1..Len(r.seq) : r.seq[j] > 0
            /\ Len(r.seq) = dictSize(d)
            /\ \A k \in StoredKeys(d) :
                   Cardinality({j \in 1..Len(r.seq) : r.seq[j] = k}) = 1
            /\ dictSize(r.d) = 0
            /\ StoredKeys(r.d) = {}
            /\ ~dictReleaseIterator(r.d, r.it, addr).abort

\* A rehash is under way, both tables hold entries and a chain holds two or
\* more, so that a deleted entry had a successor; the walk returns and
\* deletes the three entries.
SafeIteratorSurvivesDeletesWitness ==
    /\ dictIsRehashing(d)
    /\ d.ht[0].used >= 1 /\ d.ht[1].used >= 1
    /\ \E t \in 0..1 : \E b \in DOMAIN d.ht[t].table : Len(d.ht[t].table[b]) >= 2
    /\ Len(DrainAll(d, dictGetSafeIterator, addr, 0).seq) = 3
    /\ dictSize(DrainAll(d, dictGetSafeIterator, addr, 0).d) = 0

\* --------------------------------------------------------------- C15 -----
\* C15 as the specification states it, its first half: while a safe iterator
\* is open and dictAdd, dictReplace, dictFind and dictDelete of any keys are
\* called between the calls of dictNext, dictNext never returns a pointer to
\* an entry that has been deleted.
SafeIteratorNeverReturnsDeleted ==
    iter.open /\ iter.it.safe /\ ~iter.done /\ ~fatal =>
        \A junk \in JunkPointers : dictNext(d, iter.it, addr, junk).ret >= 0

\* --------------------------------------------------------------- C16 -----
\* The fingerprint of six observed values.
FingerprintOf(six) ==
    HashIntegers(<<six[1], ToWord(six[2]), ToWord(six[3]),
                   six[4], ToWord(six[5]), ToWord(six[6])>>, 1, ToWord(0))

\* The iterator has been advanced: !(iter->index == -1 && iter->table == 0)
Advanced(it) == ~(it.index = -1 /\ it.table = 0)

\* C16 as the specification states it: releasing an unsafe iterator that was
\* advanced fails the assert exactly when the six values (address, size and
\* used of ht[0] and of ht[1]) differ at release from what they were at the
\* first dictNext; releasing one that was never advanced never fails.
UnsafeReleaseFatalIffChanged ==
    iter.open /\ ~iter.it.safe /\ ~fatal =>
        LET x == dictReleaseIterator(d, iter.it, addr)
        IN  IF Advanced(iter.it)
              THEN x.abort <=> (Observed(d, addr) # iter.six)
              ELSE ~x.abort

\* C16: releasing an unsafe iterator that was advanced fails the assert
\* exactly when the 64-bit hash of the six values at release differs from the
\* hash of the six values at the first dictNext; so it fails only when the
\* six values differ, and two different sixes with the same hash are not told
\* apart.  Releasing an iterator that was never advanced never fails.
UnsafeReleaseFatalIffHashChanged ==
    iter.open /\ ~iter.it.safe /\ ~fatal =>
        LET x == dictReleaseIterator(d, iter.it, addr)
        IN  IF Advanced(iter.it)
              THEN /\ x.abort <=> (FingerprintOf(Observed(d, addr))
                                     # FingerprintOf(iter.six))
                   /\ x.abort => Observed(d, addr) # iter.six
                   /\ iter.it.fingerprint = FingerprintOf(iter.six)
              ELSE ~x.abort

\* An unsafe iterator was advanced, the dict has been written since and the
\* six values differ: the release fails the assert.
UnsafeReleaseFatalIffHashChangedWitness ==
    /\ iter.open /\ ~iter.it.safe /\ ~fatal
    /\ Advanced(iter.it)
    /\ Observed(d, addr) # iter.six
    /\ d.ht[0].used # iter.six[3]
    /\ dictReleaseIterator(d, iter.it, addr).abort

\* --------------------------------------------------------------- C17 -----
\* The values of random() tried: every residue of the two modulo operations
\* occurs.
Randoms == 0..(3 * MaxSize - 1)

\* C17: dictGetRandomKey returns NULL exactly when the dict holds no entry.
\* Otherwise, whatever random() returns, each bucket read is inside the table
\* it is read in and, while rehashing, is not a bucket of ht[0] below
\* rehashidx; each entry returned is an entry stored in the dict; some draw
\* returns an entry; and when the dict holds one entry every draw that ends
\* the loop returns that entry.
RandomKeyIsStoredEntry ==
    LET stored == Pairs(d)
    IN  /\ \A r1 \in Randoms :
               LET g == dictGetRandomKey(d, r1, 0)
               IN  /\ ~g.abort
                   /\ (g.ret = NULL) <=> (dictSize(d) = 0)
                   /\ dictSize(d) > 0 =>
                          /\ g.read.t \in 0..1
                          /\ g.read.i \in 0..(g.d.ht[g.read.t].size - 1)
                          /\ dictIsRehashing(g.d) /\ g.read.t = 0 =>
                                 g.read.i >= g.d.rehashidx
                          /\ g.read.t = 1 => dictIsRehashing(g.d)
                          /\ g.ret # AGAIN =>
                                 \A r2 \in 0..(NumKeys - 1) :
                                     LET he == RandomPick(g.d, g.read, r2).ret
                                     IN  /\ he = dictGetRandomKey(d, r1, r2).ret
                                         /\ he.p \in 1..Len(Bucket(g.d.ht[he.t], he.i))
                                         /\ EntryAt(g.d, he) \in stored
                                         /\ dictSize(d) = 1 => {EntryAt(g.d, he)} = stored
        /\ dictSize(d) > 0 =>
               \E r1 \in Randoms : dictGetRandomKey(d, r1, 0).ret # AGAIN

\* A rehash is under way past bucket 0 of ht[0], both tables hold entries;
\* one draw returns an entry of ht[0], one an entry of ht[1], one the second
\* entry of a chain and one reads an empty bucket.
RandomKeyIsStoredEntryWitness ==
    /\ dictIsRehashing(dictGetRandomKey(d, 0, 0).d)
    /\ dictGetRandomKey(d, 0, 0).d.rehashidx >= 1
    /\ \E r1, s1, u1, v1 \in Randoms :
           /\ dictGetRandomKey(d, r1, 0).ret.t = 0
           /\ dictGetRandomKey(d, s1, 0).ret.t = 1
           /\ dictGetRandomKey(d, u1, 1).ret.p = 2
           /\ dictGetRandomKey(d, v1, 0).ret = AGAIN

\* ------------------------------------------------------------------ C18 --
\* A rehash to a smaller table is under way in dd.
Shrinking(dd) == dictIsRehashing(dd) /\ dd.ht[1].size < dd.ht[0].size

\* The call that took dd to ee started a rehash to a smaller table: ee is
\* shrinking and it is not the rehash dd was in already.
StartsShrink(dd, ee) ==
    /\ Shrinking(ee)
    /\ ~(/\ Shrinking(dd)
         /\ ee.ht[0].size = dd.ht[0].size
         /\ ee.ht[1].size = dd.ht[1].size)

\* The dicts one call other than dictResize and dictExpand can leave: add,
\* replace, find, fetch, delete, a random key, some keys, a whole iteration
\* with a safe iterator and its release, dictRehash.  dictScan and the unsafe
\* iterator write nothing to the dict.
AfterImplicitCall(dd, can_resize) ==
    {dictAdd(dd, key, "u", can_resize).d : key \in Keys}
        \cup {dictReplace(dd, key, "u", can_resize).d : key \in Keys}
        \cup {dictFind(dd, key).d : key \in Keys}
        \cup {dictDelete(dd, key).d : key \in Keys}
        \cup {dictGetRandomKey(dd, 0, 0).d}
        \cup {dictGetSomeKeysSteps(dd, count).d : count \in {1, NumKeys}}
        \cup {dictRehash(dd, n).d : n \in RehashN}
        \cup {_dictRehashStep(dd).d}
        \cup {LET all == IterateAll(dd, dictGetSafeIterator, <<NullAddr, NullAddr>>)
              IN  dictReleaseIterator(all.d, all.it, <<NullAddr, NullAddr>>).d}

\* C18: no add, replace, find, delete, iteration, sampling or rehash step
\* starts a rehash whose target ht[1] is smaller than ht[0], whatever the
\* resize switch says; from an idle dict whose entries fit a smaller table
\* dictResize, when allowed, does start one, and so does a dictExpand to a
\* smaller size that holds the entries.
ShrinkOnlyExplicit ==
    /\ \A can_resize \in BOOLEAN :
           \A ee \in AfterImplicitCall(d, can_resize) : ~StartsShrink(d, ee)
    /\ ~dictIsRehashing(d) /\ d.ht[0].size > DICT_HT_INITIAL_SIZE
           /\ 2 * d.ht[0].used <= d.ht[0].size =>
           /\ StartsShrink(d, dictResize(d, TRUE).d)
           /\ StartsShrink(d, dictExpand(d, d.ht[0].size \div 2).d)

\* An idle dict of 8 buckets holding two entries: dictResize would shrink it
\* to 4 buckets, the other calls leave its table alone; resizing is allowed.
ShrinkOnlyExplicitWitness ==
    /\ ~dictIsRehashing(d) /\ d.ht[0].size = 8 /\ d.ht[0].used = 2
    /\ d.iterators = 0 /\ dict_can_resize
    /\ StartsShrink(d, dictResize(d, dict_can_resize).d)

\* ------------------------------------------------------ load sessions ----
\* The dict is filled and emptied with the resize switch on or off: the keys
\* stored are the first dictSize(d) keys of the load sessions.
LoadKey(j) == 2 * NumKeys + j

LoadKeys == {LoadKey(j) : j \in 1..NumLoadKeys}

\* dictAdd of the last key stored (an error) or of the next key.
LoadAdd ==
    \E j \in {dictSize(d), dictSize(d) + 1} \cap (1..NumLoadKeys) :
        /\ Returns(dictAdd(d, LoadKey(j), "u", dict_can_resize))
        /\ UNCHANGED <<amap, dict_can_resize, scan>>

\* dictDelete of the last key stored.
LoadDelete ==
    /\ dictSize(d) > 0
    /\ Returns(dictDelete(d, LoadKey(dictSize(d))))
    /\ UNCHANGED <<amap, dict_can_resize, scan>>

LoadRehash ==
    \E n \in {1, 100} :
        /\ Returns(dictRehash(d, n))
        /\ UNCHANGED <<amap, dict_can_resize, scan>>

LoadExpand == DictExpandOver({DICT_HT_INITIAL_SIZE, 2 * DICT_HT_INITIAL_SIZE})

NextLoad ==
    \/ LoadAdd
    \/ LoadDelete
    \/ LoadRehash
    \/ LoadExpand
    \/ dictEnableResize
    \/ dictDisableResize

SpecLoad == Init /\ [][NextLoad]_vars

\* ------------------------------------------------------------------ C19 --
PowersOfTwo == {p \in 1..(8 * NumLoadKeys) : \E e \in 0..8 : p = 2 ^ e}

SmallestPowerOfTwo(n) ==
    CHOOSE p \in PowersOfTwo : p >= n /\ \A q \in PowersOfTwo : q >= n => p <= q

\* The call that took dd to ee started a resize: ee is in a rehash that is
\* not the one dd was in.
ResizeStarted(dd, ee) ==
    /\ dictIsRehashing(ee)
    /\ ~dictIsRehashing(dd) \/ ee.ht[0].size # dd.ht[0].size

\* What an insertion with resizing enabled does to the tables of the idle
\* dict dd, ee being the dict after it: an unallocated ht[0] gets 4 buckets;
\* with used >= size a rehash starts to the smallest power of two that is at
\* least 2 * used; with used < size the tables keep their sizes.
GrowsAtFullLoad(dd, ee) ==
    IF dd.ht[0].size = 0
      THEN ee.ht[0].size = DICT_HT_INITIAL_SIZE /\ ~dictIsRehashing(ee)
    ELSE IF dd.ht[0].used >= dd.ht[0].size
      THEN /\ ResizeStarted(dd, ee)
           /\ ee.rehashidx = 0
           /\ ee.ht[0].size = dd.ht[0].size
           /\ ee.ht[1].size = SmallestPowerOfTwo(2 * dd.ht[0].used)
           /\ ee.ht[1].size > ee.ht[0].size
    ELSE ~dictIsRehashing(ee) /\ ee.ht[0].size = dd.ht[0].size

\* The keys inserted: the first key, the last key stored and the next key.
InsertedKeys ==
    {LoadKey(j) : j \in {1, dictSize(d), dictSize(d) + 1} \cap (1..NumLoadKeys)}

\* C19 as stated: with resizing enabled an insertion into an idle dict grows
\* the table exactly when used >= size (or ht[0] is unallocated), to the
\* smallest power of two >= 2 * used, and an insertion made while rehashing
\* starts no resize.
InsertGrowsAtFullLoad ==
    \A key \in InsertedKeys :
        LET r == dictAdd(d, key, "u", TRUE)
        IN  IF dictIsRehashing(d) THEN ~ResizeStarted(d, r.d)
            ELSE GrowsAtFullLoad(d, r.d)

\* C19: with resizing enabled an insertion into an idle dict grows the table
\* exactly when used >= size (or ht[0] is unallocated), to the smallest power
\* of two >= 2 * used; an insertion made while rehashing starts no resize as
\* long as the rehash is still under way after the rehash step of the call;
\* when that step ends the rehash, the insertion does to the new ht[0] what
\* it does to an idle dict.
InsertGrowsAtFullLoadAfterStep ==
    \A key \in InsertedKeys :
        LET r == dictAdd(d, key, "u", TRUE)
            st == StepIfRehashing(d)
        IN  /\ ~r.abort
            /\ IF dictIsRehashing(st.d)
                 THEN /\ ~ResizeStarted(d, r.d)
                      /\ r.d.ht[1].size = d.ht[1].size
               ELSE GrowsAtFullLoad(st.d, r.d)

\* The rehash step of the insertion ends a rehash, the table that becomes
\* ht[0] is full, and the insertion starts a new rehash.
InsertGrowsAtFullLoadAfterStepWitness ==
    /\ dictIsRehashing(d)
    /\ dictSize(d) < NumLoadKeys
    /\ LET st == StepIfRehashing(d)
           r == dictAdd(d, LoadKey(dictSize(d) + 1), "u", TRUE)
       IN  /\ ~dictIsRehashing(st.d)
           /\ st.d.ht[0].used > st.d.ht[0].size
           /\ ResizeStarted(d, r.d)
           /\ r.ret = DICT_OK

\* ------------------------------------------------------------------ C20 --
\* C20 as stated: with resizing disabled an insertion into an idle dict with
\* an allocated table starts a growth whenever used > 5 * size and starts
\* none while used <= 5 * size.
ForcedGrowthAboveRatio ==
    ~dictIsRehashing(d) /\ d.ht[0].size > 0 =>
        \A key \in InsertedKeys :
            LET r == dictAdd(d, key, "u", FALSE)
            IN  ResizeStarted(d, r.d)
                    <=> d.ht[0].used > dict_force_resize_ratio * d.ht[0].size

\* ------------------------------------------------------------------ C21 --
\* The size arguments of the dictExpand calls examined.
AskedSizes == 0..(2 * MaxSize)

\* C21: dictExpand(d, size) called while the dict is rehashing, or with a
\* size below ht[0].used, returns DICT_ERR and changes nothing: both tables,
\* both used counts, rehashidx and the iterator count are as before.
ExpandRejectedIsNoOp ==
    \A size \in AskedSizes :
        dictIsRehashing(d) \/ size < d.ht[0].used =>
            LET r == dictExpand(d, size)
            IN  r.ret = DICT_ERR /\ ~r.abort /\ r.d = d

\* An idle dict of 8 buckets holding three entries: dictExpand(d, 2) asks for
\* less than used and for another table size than the current one.
ExpandRejectedIsNoOpWitness ==
    /\ ~dictIsRehashing(d) /\ d.ht[0].size = 8 /\ d.ht[0].used = 3
    /\ dictExpand(d, 2).ret = DICT_ERR
    /\ _dictNextPower(2) # d.ht[0].size

\* ------------------------------------------------------------------ C22 --
\* The number of calls of the destructor fn for the entry e in the sequence.
TimesFreed(calls, fn, e) ==
    Cardinality({i \in DOMAIN calls :
                   calls[i] = [fn |-> fn, he |-> e.key,
                               arg |-> IF fn = "keyDestructor" THEN e.key ELSE e.val]})

\* The calls destroy every entry of the set once, key and value, and nothing
\* else.
FreesEachOnce(calls, entries) ==
    /\ Len(calls) = 2 * Cardinality(entries)
    /\ \A e \in entries :
           /\ TimesFreed(calls, "keyDestructor", e) = 1
           /\ TimesFreed(calls, "valDestructor", e) = 1

\* C22: dictDelete invokes the key destructor and the value destructor once
\* each for the entry it removes and for no other, and none when the key is
\* not stored; dictDeleteNoFree removes the entry and invokes none;
\* dictReplace of a stored key invokes the value destructor once, for the
\* value overwritten, and no key destructor; dictEmpty and dictRelease invoke
\* both once for every entry of both tables and leave no entry in either
\* table.  An entry destroyed is no more in the dict, so none is destroyed
\* twice.
DestructorsOncePerEntry ==
    LET stored == Pairs(d)
    IN  /\ \A key \in Keys :
               LET x == dictDelete(d, key)
                   n == dictDeleteNoFree(d, key)
                   gone == stored \ Pairs(x.d)
               IN  /\ FreesEachOnce(dictGenericDeleteCallbacks(d, key, FALSE), gone)
                   /\ gone = {e \in stored : KeyOf(e.key) = key}
                   /\ dictGenericDeleteCallbacks(d, key, TRUE) = <<>>
                   /\ n.d = x.d /\ n.ret = x.ret
                   /\ (x.ret = DICT_OK) <=> Present(key)
        /\ \A kv \in KeyVals :
               LET calls == dictReplaceCallbacks(d, kv[1], kv[2], dict_can_resize)
                   frees == {i \in DOMAIN calls : calls[i].fn # "valDup"}
               IN  IF Present(kv[1])
                     THEN \E i \in DOMAIN calls :
                              /\ frees = {i}
                              /\ calls[i] = [fn |-> "valDestructor", val |-> amap[kv[1]]]
                   ELSE frees = {}
        /\ FreesEachOnce(dictEmptyCallbacks(d), stored)
        /\ FreesEachOnce(dictReleaseCallbacks(d), stored)
        /\ Pairs(dictEmpty(d).d) = {} /\ Pairs(dictRelease(d).d) = {}
        /\ \A t \in 0..1 : /\ dictEmpty(d).d.ht[t] = EmptyHt
                           /\ dictRelease(d).d.ht[t] = EmptyHt

\* A rehash is under way, both tables hold entries and a chain holds two:
\* dictEmpty destroys the entries of both tables.
DestructorsOncePerEntryWitness ==
    /\ dictIsRehashing(d)
    /\ d.ht[0].used > 0 /\ d.ht[1].used > 0
    /\ \E he \in Places(d) : he.p = 2
    /\ Len(dictEmptyCallbacks(d)) = 2 * dictSize(d)
    /\ dictSize(d) >= 3

\* ------------------------------------------------------------------ C23 --
\* The dictScan calls of a session on the dict dd left alone: the first with
\* the cursor v, each later one with the cursor the call before returned,
\* until a call returns 0 or n calls were made.
RECURSIVE ScanCalls(_, _, _)
ScanCalls(dd, v, n) ==
    IF n = 0 THEN <<>>
    ELSE LET r == dictScan(dd, v)
         IN  <<[v |-> v, ret |-> r.ret, emitted |-> r.emitted]>>
                 \o (IF r.ret = 0 THEN <<>> ELSE ScanCalls(dd, r.ret, n - 1))

RECURSIVE Concat(_)
Concat(seqs) == IF seqs = <<>> THEN <<>> ELSE Head(seqs) \o Concat(Tail(seqs))

\* C23: on an idle dict of S buckets that holds entries and is left alone, a
\* scan from cursor 0 emits in each call the entries of the bucket
\* cursor & sizemask, in chain order; the call that returns 0 is call number
\* S; the S calls read the S buckets once each, and each entry is emitted
\* once.
IdleScanVisitsEachBucketOnce ==
    ~dictIsRehashing(d) /\ dictSize(d) > 0 =>
        LET S == d.ht[0].size
            calls == ScanCalls(d, 0, 2 * S)
            all == Concat([i \in DOMAIN calls |-> calls[i].emitted])
        IN  /\ Len(calls) = S
            /\ calls[S].ret = 0
            /\ \A i \in 1..S :
                   calls[i].emitted =
                       ChainKeys(Bucket(d.ht[0], AndMask(calls[i].v, d.ht[0].sizemask)))
            /\ \A b \in 0..(S - 1) :
                   Cardinality({i \in 1..S :
                                  AndMask(calls[i].v, d.ht[0].sizemask) = b}) = 1
            /\ Len(all) = dictSize(d)
            /\ \A e \in TableEntries(d, 0) :
                   Cardinality({j \in DOMAIN all : all[j] = e.key}) = 1

\* An idle dict of 16 buckets with two entries.
IdleScanVisitsEachBucketOnceWitness ==
    /\ ~dictIsRehashing(d) /\ d.ht[0].size = 16 /\ dictSize(d) = 2
    /\ Len(ScanCalls(d, 0, 32)) = 16

\* -------------------------------------------------- sampling sessions ----
\* The dict is used with a few keys, two of them in one chain, and safe
\* iterators come and go, so that a rehash outlasts the rehash steps of a
\* sampling call.
SampleKeys == 1..NumSampleKeys

SampleAdd == DictAddOver(SampleKeys \X {"u"})

SampleDelete == DictDeleteOver(SampleKeys)

SampleExpand == DictExpandOver(ExpandSizes(NumSampleKeys, MaxSize))

NextSample ==
    \/ SampleAdd
    \/ SampleDelete
    \/ SampleExpand
    \/ CallDictRehash
    \/ SafeIteratorFirstNext
    \/ SafeIteratorRelease

SpecSample == Init /\ [][NextSample]_vars

\* ------------------------------------------------------------------ C24 --
\* The count arguments and the values of random() of the calls examined.
SomeCounts == 0..(NumSampleKeys + 1)

SomeDraws == (0..(MaxSize - 1)) \X {0, 3, 5}

Min(a, b) == IF a < b THEN a ELSE b

\* C24: dictGetSomeKeys(d, des, count) returns after at most
\* 10 * min(count, dictSize(d)) iterations of its while loop, stores at most
\* min(count, dictSize(d)) entries, returns the number of entries stored,
\* stores only pointers to entries of the dict, and reads only buckets
\* inside the table it reads.
SomeKeysStaysInBounds ==
    \A count \in SomeCounts, rs \in SomeDraws :
        LET g == dictGetSomeKeys(d, count, rs)
            most == Min(count, dictSize(d))
        IN  /\ ~g.abort
            /\ g.steps <= 10 * most
            /\ Len(g.des) <= most
            /\ g.ret = Len(g.des)
            /\ \A n \in DOMAIN g.des :
                   /\ g.des[n] \in Places(g.d)
                   /\ EntryAt(g.d, g.des[n]) \in Pairs(d)
            /\ \A rd \in g.reads :
                   /\ rd[1] \in 0..1
                   /\ rd[2] \in 0..(g.d.ht[rd[1]].size - 1)
                   /\ rd[1] = 1 => dictIsRehashing(g.d)

\* A rehash from 8 buckets to 4 is under way past bucket 0, and a call with
\* a first draw above the small table stores an entry.
SomeKeysStaysInBoundsWitness ==
    /\ dictIsRehashing(d) /\ d.ht[0].size = 8 /\ d.ht[1].size = 4
    /\ d.iterators = 0 /\ dictSize(d) = 3
    /\ \E rs \in SomeDraws :
           LET g == dictGetSomeKeys(d, 1, rs)
           IN  /\ dictIsRehashing(g.d) /\ g.d.rehashidx > 0
               /\ rs[1] >= 4
               /\ g.ret = 1 /\ g.steps > 1

\* ------------------------------------------------------------------ C25 --
\* The dict after the first n dictAdd calls of a run from dd on, one call for
\* each key of the sequence in turn; the value is "u".
RECURSIVE AddRun(_, _, _, _)
AddRun(dd, keys, n, can_resize) ==
    IF n = 0 THEN dd
    ELSE dictAdd(AddRun(dd, keys, n - 1, can_resize), keys[n], "u", can_resize).d

\* The call that took dd to ee gave a table another size.
Resized(dd, ee) ==
    \E t \in 0..1 : ee.ht[t].size # dd.ht[t].size

FourKeys == {ks \in [1..4 -> Keys] : \A i, j \in 1..4 : ks[i] = ks[j] => i = j}

\* dictDelete of two of the four keys of a dict leaves used == 2, dictFind of
\* the keys deleted gives NULL and dictFind of the others gives their entries.
TwoDeletesLeaveTwo(full, ks) ==
    \A a, b \in 1..4 :
        a # b =>
            LET x == dictDelete(full, ks[a])
                y == dictDelete(x.d, ks[b])
            IN  /\ x.ret = DICT_OK /\ y.ret = DICT_OK
                /\ dictSize(y.d) = 2
                /\ y.d.ht[0].used = 2 /\ y.d.ht[1].used = 0
                /\ \A c \in 1..4 :
                       LET f == dictFind(y.d, ks[c])
                       IN  IF c \in {a, b} THEN f.ret = NULL
                           ELSE /\ f.ret # NULL
                                /\ EntryAt(f.d, f.ret).key = ks[c]

\* C25: on a dict just created (or emptied), four dictAdd calls of distinct
\* keys succeed and exactly one of them changes the size of a table: the
\* first, which gives ht[0] its 4 buckets; no rehash is started.  Deleting two
\* of the keys then leaves used == 2, dictFind of the keys deleted gives NULL
\* and dictFind of the others gives their entries; and so it is in every
\* state the program reaches that holds the tables of such a run.
FourAddsOneResize ==
    /\ d.ht[0].size = 0 =>
           \A ks \in FourKeys, can_resize \in BOOLEAN :
               /\ \A i \in 1..4 :
                      dictAdd(AddRun(d, ks, i - 1, can_resize), ks[i], "u",
                              can_resize).ret = DICT_OK
               /\ {i \in 1..4 : Resized(AddRun(d, ks, i - 1, can_resize),
                                        AddRun(d, ks, i, can_resize))} = {1}
               /\ \A i \in 0..4 : ~dictIsRehashing(AddRun(d, ks, i, can_resize))
               /\ AddRun(d, ks, 4, can_resize).ht[0].size = DICT_HT_INITIAL_SIZE
               /\ AddRun(d, ks, 4, can_resize).ht[0].used = 4
               /\ TwoDeletesLeaveTwo(AddRun(d, ks, 4, can_resize), ks)
    /\ ~dictIsRehashing(d) /\ d.ht[0].size = DICT_HT_INITIAL_SIZE /\ d.ht[0].used = 4 =>
           \A ks \in FourKeys :
               d.ht = AddRun(dictCreate, ks, 4, dict_can_resize).ht =>
                   TwoDeletesLeaveTwo(d, ks)

\* The program has made four dictAdd calls of distinct keys on the dict just
\* created: the dict holds the tables such a run leaves.
FourAddsOneResizeWitness ==
    /\ d.iterators = 0 /\ ~dictIsRehashing(d) /\ d.ht[0].used = 4
    /\ \E ks \in FourKeys : d.ht = AddRun(dictCreate, ks, 4, dict_can_resize).ht

\* ------------------------------------------------------------------ C26 --
\* ht[1] of dd is allocated exactly when dd is rehashing.
SecondTableWhileRehashing(dd) ==
    /\ dictIsRehashing(dd) <=> dd.ht[1].size > 0
    /\ dd.ht[1].size > 0 <=> dd.ht[1].table # <<>>

\* C26: in every reachable state rehashidx != -1 exactly when ht[1].size > 0:
\* ht[1] has a bucket array exactly while a rehash is in progress; dictEmpty
\* and dictRelease leave it so.
RehashIffSecondTable ==
    /\ SecondTableWhileRehashing(d)
    /\ SecondTableWhileRehashing(dictEmpty(d).d)
    /\ dictRelease(d).d.ht[1].size = 0

\* A rehash is under way and some entries are in ht[1] already.
RehashIffSecondTableWitness ==
    /\ dictIsRehashing(d) /\ d.rehashidx > 0
    /\ d.ht[1].size > 0 /\ d.ht[1].used > 0 /\ d.ht[0].used > 0

\* ------------------------------------------------------------------ C27 --
\* C27: when dictAdd links a new entry while the dict is rehashing, and so
\* when the expand-if-needed check of the call has just started the rehash,
\* the entry is linked at the head of its bucket of ht[1] and ht[1].used is
\* one more, ht[0] being as the check left it; when the dict is idle the
\* entry goes to ht[0].  No call of dictAdd that leaves the rehash it found
\* running adds an entry to ht[0].
NewEntryGoesToSecondTable ==
    \A key \in InsertedKeys, can_resize \in BOOLEAN :
        LET st == StepIfRehashing(d)
            ex == _dictExpandIfNeeded(st.d, can_resize).d
            r == dictAdd(d, key, "u", can_resize)
            t == IF dictIsRehashing(ex) THEN 1 ELSE 0
            b == AndMask(hashFunction(key), ex.ht[t].sizemask)
        IN  /\ r.ret = DICT_OK =>
                /\ r.d.rehashidx = ex.rehashidx
                /\ r.d.ht[1 - t] = ex.ht[1 - t]
                /\ r.d.ht[t].used = ex.ht[t].used + 1
                /\ r.d.ht[t].size = ex.ht[t].size
                /\ Bucket(r.d.ht[t], b) =
                       <<[key |-> key, val |-> "u"]>> \o Bucket(ex.ht[t], b)
                /\ \A i \in 0..(ex.ht[t].size - 1) :
                       i # b => Bucket(r.d.ht[t], i) = Bucket(ex.ht[t], i)
            /\ dictIsRehashing(d) /\ dictIsRehashing(r.d)
                   /\ r.d.ht[0].size = d.ht[0].size =>
                   /\ TableEntries(r.d, 0) \subseteq TableEntries(d, 0)
                   /\ r.d.ht[0].used <= d.ht[0].used

\* An idle dict with used >= size: the next key is added by the call that
\* starts the rehash, and goes to ht[1].
NewEntryGoesToSecondTableWitness ==
    /\ ~dictIsRehashing(d) /\ d.ht[0].size > 0 /\ d.ht[0].used >= d.ht[0].size
    /\ dictSize(d) < NumLoadKeys
    /\ LET r == dictAdd(d, LoadKey(dictSize(d) + 1), "u", TRUE)
       IN  /\ r.ret = DICT_OK /\ dictIsRehashing(r.d)
           /\ r.d.ht[1].used = 1 /\ r.d.ht[0].used = d.ht[0].used

\* ------------------------------------------------------------------ C28 --
\* C28: in every reachable state the size of each table is 0 or a power of
\* two >= 4, its sizemask is size - 1 (0 when size is 0), its table has size
\* buckets, and every entry chained in bucket i of a table has
\* hash(key) & sizemask == i.
TablesWellFormed ==
    \A t \in 0..1 :
        LET ht == d.ht[t]
        IN  /\ ht.size = 0 \/ (ht.size \in PowersOfTwo /\ ht.size >= DICT_HT_INITIAL_SIZE)
            /\ ht.sizemask = IF ht.size = 0 THEN 0 ELSE ht.size - 1
            /\ Len(ht.table) = ht.size
            /\ \A i \in 0..(ht.size - 1) :
                   \A p \in 1..Len(Bucket(ht, i)) :
                       AndMask(hashFunction(Bucket(ht, i)[p].key), ht.sizemask) = i

\* A rehash from 4 to 8 buckets is under way, both tables hold entries and a
\* chain of ht[0] holds two.
TablesWellFormedWitness ==
    /\ dictIsRehashing(d) /\ d.ht[0].size = 4 /\ d.ht[1].size = 8
    /\ d.ht[0].used >= 2 /\ d.ht[1].used >= 1
    /\ \E i \in 0..3 : Len(Bucket(d.ht[0], i)) = 2

\* ------------------------------------------------------------------ C29 --
\* The dict after n calls of dictRehash(d, 1), each on the dict the call
\* before left.
RECURSIVE Steps(_, _)
Steps(dd, n) == IF n = 0 THEN dd ELSE dictRehash(Steps(dd, n - 1), 1).d

\* The call that took dd to ee made n rehash steps, as far as the rehash
\* tells: the rehash ended if n steps end it, and else rehashidx is where n
\* steps leave it.
MadeSteps(dd, ee, n) ==
    IF dictIsRehashing(Steps(dd, n))
      THEN dictIsRehashing(ee) /\ ee.rehashidx = Steps(dd, n).rehashidx
    ELSE ee.ht[0].size = Steps(dd, n).ht[0].size

\* The dicts the operations leave: dictAdd, dictAddRaw, dictReplace,
\* dictReplaceRaw, dictFind, dictFetchValue and dictDelete of the key.
AfterOperation(dd, key, can_resize) ==
    [add |-> dictAdd(dd, key, "u", can_resize).d,
     addRaw |-> dictAddRaw(dd, key, can_resize).d,
     replace |-> dictReplace(dd, key, "u", can_resize).d,
     replaceRaw |-> dictReplaceRaw(dd, key, can_resize).d,
     find |-> dictFind(dd, key).d,
     fetchValue |-> dictFetchValue(dd, key).d,
     delete |-> dictDelete(dd, key).d]

Operations == {"add", "addRaw", "replace", "replaceRaw", "find", "fetchValue", "delete"}

EmptyTableOf(size) ==
    [table |-> [i \in 1..size |-> <<>>], size |-> size,
     sizemask |-> size - 1, used |-> 0]

\* The size dictExpand(d, size) allocates by the statement: the smallest
\* power of two that is at least 4 and at least size.
ExpandedSize(size) == SmallestPowerOfTwo(IF size > 4 THEN size ELSE 4)

\* The dict after a first allocation: the new table is ht[0], no rehash.
ReplacesFirst(dd, ee, size) ==
    /\ ee.ht[0] = EmptyTableOf(ExpandedSize(size))
    /\ ee.ht[1] = dd.ht[1]
    /\ ee.rehashidx = -1
    /\ ee.iterators = dd.iterators

\* The dict after a resize: ht[0] as before, the new table is ht[1], and
\* the rehash starts at bucket 0.
BecomesSecond(dd, ee, size) ==
    /\ ee.ht[0] = dd.ht[0]
    /\ ee.ht[1] = EmptyTableOf(ExpandedSize(size))
    /\ ee.rehashidx = 0
    /\ ee.iterators = dd.iterators

\* C30 as stated, a table being empty when it holds no entry, as the new
\* table is: a successful dictExpand(d, size) replaces ht[0] by the new
\* table and stays idle when ht[0] holds no entry, and else makes the new
\* table ht[1] with rehashidx 0.
ExpandReplacesEmptyTable ==
    \A size \in AskedSizes :
        LET r == dictExpand(d, size)
        IN  r.ret = DICT_OK =>
                IF d.ht[0].used = 0
                  THEN ReplacesFirst(d, r.d, size)
                ELSE BecomesSecond(d, r.d, size)

\* C30: a successful dictExpand(d, size) creates a table without entries
\* whose size is the smallest power of two >= max(4, size); if ht[0] has no
\* bucket array yet the new table becomes ht[0] and the dict stays idle
\* (rehashidx -1); otherwise, also when the buckets of ht[0] hold no entry,
\* ht[0] is left as it is, the new table becomes ht[1] and rehashidx is 0.
ExpandReplacesUnallocatedTable ==
    \A size \in AskedSizes :
        LET r == dictExpand(d, size)
        IN  r.ret = DICT_OK =>
                /\ ~r.abort
                /\ IF d.ht[0].size = 0
                     THEN ReplacesFirst(d, r.d, size)
                   ELSE BecomesSecond(d, r.d, size)

\* An idle dict whose ht[0] has buckets but no entry (every key was
\* deleted): dictExpand(d, 8) succeeds and starts a rehash into ht[1].
ExpandReplacesUnallocatedTableWitness ==
    /\ ~dictIsRehashing(d)
    /\ d.ht[0].size = DICT_HT_INITIAL_SIZE /\ d.ht[0].used = 0
    /\ dictExpand(d, 8).ret = DICT_OK
    /\ dictExpand(d, 8).d.rehashidx = 0
    /\ dictExpand(d, 8).d.ht[1].size = 8

\* ------------------------------------------------------------------ C31 --
\* The buckets of ht[0] a dictRehash call went over: those from the
\* rehashidx it found to the one before the rehashidx its loop left.
RehashVisited(dd, lp) == dd.rehashidx..(lp.d.rehashidx - 1)

\* C31: a call dictRehash(d, n) on a rehashing dict moves at most n
\* non-empty buckets of ht[0], each one whole (the bucket is empty after the
\* call, its entries are in ht[1], rehashidx is past it), and goes over at
\* most 10*n empty buckets; the buckets from the new rehashidx on are as
\* before; when the 10*n-th empty bucket is visited the call returns 1 at
\* once, that empty bucket being the last one it went over.
RehashMovesAtMostN ==
    dictIsRehashing(d) =>
        \A n \in RehashN :
            LET lp == RehashLoop(d, n, n * 10)
                r == dictRehash(d, n)
                visited == RehashVisited(d, lp)
                moved == {i \in visited : Bucket(d.ht[0], i) # <<>>}
                empties == visited \ moved
            IN  /\ ~r.abort
                /\ lp.d.rehashidx >= d.rehashidx
                /\ Cardinality(moved) <= n
                /\ Cardinality(empties) <= 10 * n
                /\ \A i \in visited : Bucket(lp.d.ht[0], i) = <<>>
                /\ \A i \in moved :
                       Range(Bucket(d.ht[0], i)) \subseteq TableEntries(lp.d, 1)
                /\ \A i \in lp.d.rehashidx..(d.ht[0].size - 1) :
                       Bucket(lp.d.ht[0], i) = Bucket(d.ht[0], i)
                /\ n > 0 /\ Cardinality(empties) = 10 * n =>
                       /\ r.ret = 1 /\ r.d = lp.d
                       /\ (lp.d.rehashidx - 1) \in empties

\* A rehashing dict whose ht[0] has ten empty buckets from rehashidx on and
\* an entry further up: dictRehash(d, 1) returns 1 with rehashidx ten
\* buckets on and ht[1] as it was, and dictRehash(d, 2) ends the rehash.
RehashMovesAtMostNWitness ==
    /\ dictIsRehashing(d)
    /\ \A i \in d.rehashidx..(d.rehashidx + 9) :
           i < d.ht[0].size /\ Bucket(d.ht[0], i) = <<>>
    /\ d.ht[0].used > 0
    /\ dictRehash(d, 1).ret = 1
    /\ dictRehash(d, 1).d.rehashidx = d.rehashidx + 10
    /\ dictRehash(d, 1).d.ht[1] = d.ht[1]
    /\ dictRehash(d, 2).ret = 0

\* ------------------------------------------------------------------ C32 --
\* C32: dictRehash(d, n) returns 0 exactly when the dict is idle after the
\* call and 1 exactly when it is still rehashing; a call that ends a rehash
\* leaves the former ht[1], holding every entry, as ht[0] and a reset ht[1];
\* the call whose loop leaves ht[0].used at 0 is the call that switches to
\* idle, and a call that returns 1 leaves entries in ht[0].
RehashReturnsDoneIffIdle ==
    \A n \in RehashN :
        LET r == dictRehash(d, n)
            lp == RehashLoop(d, n, n * 10)
        IN  /\ r.ret \in {0, 1}
            /\ (r.ret = 0) <=> ~dictIsRehashing(r.d)
            /\ (r.ret = 1) <=> dictIsRehashing(r.d)
            /\ ~dictIsRehashing(d) => r.d = d
            /\ dictIsRehashing(d) /\ r.ret = 0 =>
                   /\ r.d.ht[0] = lp.d.ht[1]
                   /\ r.d.ht[0].size = d.ht[1].size
                   /\ r.d.ht[1] = EmptyHt
                   /\ TableEntries(r.d, 0) = Pairs(d)
            /\ dictIsRehashing(d) =>
                   ((lp.d.ht[0].used = 0) <=> (r.ret = 0))
            /\ r.ret = 1 => r.d.ht[0].used > 0 /\ r.d.ht[1].size = d.ht[1].size

\* A rehashing dict with entries in two buckets of ht[0]: dictRehash(d, 1)
\* moves one bucket and returns 1, dictRehash(d, 2) moves both, swaps the
\* tables and returns 0.
RehashReturnsDoneIffIdleWitness ==
    /\ dictIsRehashing(d)
    /\ dictRehash(d, 1).ret = 1
    /\ dictRehash(d, 1).d.ht[0].used < d.ht[0].used
    /\ dictRehash(d, 2).ret = 0
    /\ dictRehash(d, 2).d.ht[0].size = d.ht[1].size

\* ------------------------------------------------------------------ C33 --
\* The cursors given to dictScan.
ScanCursors == 0..(2 * MaxScanSize - 1)

\* The keys dictScan is to emit by the statement: those of bucket v & m0 of
\* the smaller table and those of every bucket of the larger table whose
\* index is congruent to v & m0 modulo the size of the smaller table.
ScanExpansionKeys(dd, v) ==
    LET swap == dd.ht[0].size > dd.ht[1].size
        t0 == IF swap THEN dd.ht[1] ELSE dd.ht[0]
        t1 == IF swap THEN dd.ht[0] ELSE dd.ht[1]
        b == v % t0.size
    IN  {e.key : e \in Range(Bucket(t0, b))}
            \cup UNION {{e.key : e \in Range(Bucket(t1, i))}
                          : i \in {j \in 0..(t1.size - 1) : j % t0.size = b}}

\* C33 as stated: a dictScan call made while rehashing, with any cursor v,
\* emits every entry of bucket v & m0 of the smaller table and every entry
\* of every bucket of the larger table whose index is congruent to v & m0
\* modulo the size of the smaller table.
ScanEmitsWholeExpansion ==
    dictIsRehashing(d) /\ dictSize(d) > 0 =>
        \A v \in ScanCursors :
            ScanExpansionKeys(d, v) \subseteq Range(dictScan(d, v).emitted)

\* ------------------------------------------------------------------ C34 --
\* Sessions of a safe iterator in which the dict is emptied: the entries the
\* iterator points to are released by dictEmpty, and so are both arrays.
IterEmpty ==
    /\ ~fatal
    /\ d' = dictEmpty(d).d
    /\ iter' = [iter EXCEPT !.it.entry = IF @ > 0 THEN -@ ELSE @,
                            !.it.nextEntry = IF @ > 0 THEN -@ ELSE @]
    /\ amap' = [k \in Keys |-> ABSENT]
    /\ addr' = <<NullAddr, NullAddr>>
    /\ UNCHANGED <<dict_can_resize, fatal, scan>>

NextCount ==
    \/ SafeGet
    \/ IterNext
    \/ IterRelease
    \/ SafeAdd
    \/ SafeDelete
    \/ IterEmpty

SpecCount == Init /\ [][NextCount]_vars

\* The safe iterators that were advanced at least once and are not released:
\* dictNext takes index from -1 at its first call and never back to it.
SafeIteratorsAdvanced ==
    IF iter.open /\ iter.it.safe /\ iter.it.index # -1 THEN 1 ELSE 0

\* C34 as stated: after any sequence of operations, dictEmpty and the
\* release of an iterator that was never advanced among them, d.iterators is
\* the number of safe iterators advanced at least once and not yet released,
\* and so never negative.
IteratorsCountsSafeIterators ==
    d.iterators = SafeIteratorsAdvanced /\ d.iterators >= 0

\* ------------------------------------------------------------------ C35 --
\* C35: whenever the dict is rehashing, 0 <= rehashidx <= ht[0].size and
\* every bucket of ht[0] below rehashidx is empty; no call made so far has
\* failed an assert, and a dictRehash(d, n) called now neither fails the
\* assert ht[0].size > rehashidx nor reads a bucket past the end of ht[0]
\* while it skips the empty ones.
RehashidxWithinTable ==
    /\ ~fatal
    /\ dictIsRehashing(d) =>
           /\ 0 <= d.rehashidx /\ d.rehashidx <= d.ht[0].size
           /\ \A i \in 0..(d.rehashidx - 1) : Bucket(d.ht[0], i) = <<>>
           /\ \A n \in RehashN :
                  /\ RehashLoop(d, n, n * 10).out \notin {"assert", "oob"}
                  /\ ~dictRehash(d, n).abort

\* A rehash that has moved a bucket already: rehashidx is past bucket 0,
\* the bucket it names is empty, ht[0] still holds entries further up, and
\* dictRehash(d, 1) skips the empty buckets and moves the next chain.
RehashidxWithinTableWitness ==
    /\ dictIsRehashing(d)
    /\ d.rehashidx >= 1
    /\ d.ht[0].used > 0
    /\ Bucket(d.ht[0], d.rehashidx) = <<>>
    /\ ~dictRehash(d, 1).abort
    /\ dictRehash(d, 1).d.ht[1].used > d.ht[1].used

\* ------------------------------------------------------------------ C36 --
\* Scan sessions that count their calls: scan.from is the cursor given to the
\* last call, scan.v the cursor it returned, scan.mask the sizemask of the
\* smaller table (of ht[0] when idle) at that call, scan.calls the number of
\* calls of the session so far.
CountedDictScan ==
    LET v == IF scan.active THEN scan.v ELSE 0
        r == dictScan(d, v)
    IN  /\ ~fatal
        /\ scan' = [active |-> r.ret # 0,
                    v |-> r.ret,
                    missing |-> {},
                    done |-> r.ret = 0,
                    from |-> v,
                    mask |-> IF dictIsRehashing(d) /\ d.ht[1].size < d.ht[0].size
                               THEN d.ht[1].sizemask ELSE d.ht[0].sizemask,
                    calls |-> IF scan.active THEN scan.calls + 1 ELSE 1]
        /\ UNCHANGED <<d, dict_can_resize, amap, fatal, iter, addr>>

NextCalls ==
    \/ CountedDictScan
    \/ SessionAdd
    \/ SessionDelete
    \/ SessionExpand
    \/ CallDictResize
    \/ CallDictRehash

SpecCalls == Init /\ [][NextCalls]_vars

\* The bit-reversed value of a cursor below 2^31, without its 33 low bits,
\* which are zero.
RECURSIVE HighValue(_, _)
HighValue(b, i) ==
    IF i >= WordBits THEN 0 ELSE b[i] * (2 ^ (i - 33)) + HighValue(b, i + 1)

RevOrder(v) == HighValue(rev(ToBits(v)), 33)

\* C36: in a session of dictScan calls that starts at cursor 0 and gives
\* each call the cursor the call before returned, the dict being resized
\* and rehashed between the calls and no table larger than MaxScanSize, the
\* cursor a call returns has no bit set outside the mask of the smaller
\* table of that call, and unless it is 0 its bit-reversed value is greater
\* than that of the cursor the call was given; the call that returns 0 is at
\* most call number MaxScanSize of the session.
ScanCursorAdvances ==
    scan.active \/ scan.done =>
        /\ d.ht[0].size <= MaxScanSize /\ d.ht[1].size <= MaxScanSize
        /\ AndMask(scan.v, scan.mask) = scan.v
        /\ scan.v # 0 => RevOrder(scan.v) > RevOrder(scan.from)
        /\ scan.calls <= MaxScanSize

\* A session whose table was shrunk between two calls: the cursor given to
\* the last call has a bit above the mask of the smaller table of that call,
\* the call was made while rehashing and returned a cursor that is not 0.
ScanCursorAdvancesWitness ==
    /\ scan.active
    /\ scan.calls >= 2
    /\ scan.from > scan.mask
    /\ scan.v # 0
    /\ dictIsRehashing(d)

\* ------------------------------------------------------------------ C37 --
\* C37: dictExpand(d, size) on an idle dict, size rounding to the size ht[0]
\* has, returns DICT_ERR and leaves the dict as it is; so does dictResize on
\* an idle dict whose ht[0] has the smallest size that fits its entries,
\* whether resizing is allowed or not.
ExpandToSameSizeIsError ==
    ~dictIsRehashing(d) =>
        /\ \A size \in AskedSizes :
               ExpandedSize(size) = d.ht[0].size =>
                   LET r == dictExpand(d, size)
                   IN  r.ret = DICT_ERR /\ ~r.abort /\ r.d = d
        /\ ExpandedSize(d.ht[0].used) = d.ht[0].size =>
               \A can_resize \in BOOLEAN :
                   LET r == dictResize(d, can_resize)
                   IN  r.ret = DICT_ERR /\ ~r.abort /\ r.d = d

\* An idle dict of 4 buckets with entries: dictExpand(d, 4) asks for enough
\* room for them and for the size the table has, dictResize asks for the
\* same, and a dictExpand(d, 8) would succeed.
ExpandToSameSizeIsErrorWitness ==
    /\ ~dictIsRehashing(d)
    /\ d.ht[0].size = DICT_HT_INITIAL_SIZE
    /\ d.ht[0].used >= 1
    /\ dictExpand(d, DICT_HT_INITIAL_SIZE).ret = DICT_ERR
    /\ dictResize(d, TRUE).ret = DICT_ERR
    /\ dictExpand(d, 2 * DICT_HT_INITIAL_SIZE).ret = DICT_OK

\* ------------------------------------------------------------------ C38 --
\* Sessions of an unsafe iterator in which the dict is only read: from the
\* first dictNext to the release the calls are dictNext, dictFind and
\* dictFetchValue; the dict is written while no iterator is being advanced.
Iterating == iter.open /\ Advanced(iter.it)

ReadFind ==
    \E k \in IterKeys :
        /\ \/ IterCall(dictFind(d, k), iter)
           \/ IterCall(dictFetchValue(d, k), iter)
        /\ UNCHANGED amap

ReadAdd == ~Iterating /\ IterAddOver(IterKeys)

ReadDelete == ~Iterating /\ IterDeleteOver(IterKeys)

ReadExpand == ~Iterating /\ IterExpandOver(ExpandSizes(NumIterKeys, MaxSize))

ReadRehash == ~Iterating /\ IterRehash

NextRead ==
    \/ UnsafeGet
    \/ IterNext
    \/ IterRelease
    \/ ReadFind
    \/ ReadAdd
    \/ ReadDelete
    \/ ReadExpand
    \/ ReadRehash

SpecRead == Init /\ [][NextRead]_vars

\* The sizes and used counts of the two tables.
SizesAndUsed(dd) ==
    <<dd.ht[0].size, dd.ht[0].used, dd.ht[1].size, dd.ht[1].used>>

SamePairs(dd, ee) ==
    /\ Pairs(ee) = Pairs(dd)
    /\ ee.ht[0].used + ee.ht[1].used = dd.ht[0].used + dd.ht[1].used

\* The call that took dd to ee left the tables and rehashidx as they were.
SameTables(dd, ee) == ee.ht = dd.ht /\ ee.rehashidx = dd.rehashidx

\* C39: dictFind, dictFetchValue, dictGetRandomKey, dictGetSomeKeys and
\* dictNext leave the set of (key, value) pairs stored in the dict and
\* ht[0].used + ht[1].used as they were; dictNext, on an iterator of either
\* mode, at its first call and over a whole iteration, moreover leaves both
\* tables and rehashidx exactly as they were.  (dictScan writes no field of
\* the dict: it has no dict among its results.)
ReadersKeepPairs ==
    /\ \A k \in Keys :
           /\ SamePairs(d, dictFind(d, k).d)
           /\ SamePairs(d, dictFetchValue(d, k).d)
    /\ \A r1 \in {0, 1, 5} : SamePairs(d, dictGetRandomKey(d, r1, 0).d)
    /\ \A count \in SomeCounts :
           /\ SamePairs(d, dictGetSomeKeysSteps(d, count).d)
           /\ SamePairs(d, dictGetSomeKeys(d, count, <<0, 3>>).d)
    /\ \A it \in {dictGetIterator, dictGetSafeIterator} :
           LET first == dictNext(d, it, addr, 0)
               all == IterateAll(d, it, addr)
           IN  /\ SamePairs(d, first.d) /\ SameTables(d, first.d)
               /\ SamePairs(d, all.d) /\ SameTables(d, all.d)

\* A rehash is under way with no safe iterator open and entries in both
\* tables: a dictFind, a dictGetRandomKey and a dictGetSomeKeys each move a
\* bucket to ht[1], the pairs staying the same, and an iteration moves none.
ReadersKeepPairsWitness ==
    /\ dictIsRehashing(d) /\ d.iterators = 0
    /\ d.ht[0].used >= 2 /\ d.ht[1].used >= 1
    /\ dictFind(d, 1).d.ht[1].used > d.ht[1].used
    /\ dictGetRandomKey(d, 0, 0).d.ht[1].used > d.ht[1].used
    /\ dictGetSomeKeysSteps(d, 1).d.ht[1].used > d.ht[1].used
    /\ IterateAll(d, dictGetIterator, addr).d.ht = d.ht
    /\ Pairs(dictFind(d, 1).d) = Pairs(d)

====
